---- MODULE Spec2Model ----
(***************************************************************************)
(* DevPulse analytics pipeline: the report cache of backend/api/server.py  *)
(* (get_cached_or_fetch served by Flask's threaded development server) and *)
(* the sentiment classifier of backend/ml/sentiment_analyzer.py.           *)
(*                                                                         *)
(* Strings are sequences of one-character strings, so that lower(),        *)
(* strip(), split() and substring tests are computed, not assumed.         *)
(* Scores are integers in hundredths (0.95 is 95).  Time is counted in     *)
(* ticks of HoursPerTick hours.                                            *)
(***************************************************************************)
EXTENDS Integers, Sequences, FiniteSets, TLC

VARIABLES
    data_cache,               \* server.py:36  cache_key -> result dict, or None
    last_fetch_time,          \* server.py:37  cache_key -> datetime, or None
    now,                      \* datetime.now(), in ticks
    upstream,                 \* what GitHub and Stack Overflow hold for a known technology
    pc,                       \* per request thread: position in get_cached_or_fetch
    technology,               \* per thread: argument of get_cached_or_fetch
    force_refresh,            \* per thread: argument of get_cached_or_fetch
    github_issues,            \* per thread: len(github_issues)
    stackoverflow_questions,  \* per thread: len(stackoverflow_questions)
    result,                   \* per thread: the dict the call built or returns
    path,                     \* history: "none", "hit" or "fetch" taken by the call
    rid,                      \* history: number of the recomputation the call runs, 0 on a hit
    nfetches,                   \* history: recomputations begun so far
    collector_calls,          \* history: collector invocations made by the call
    cold_start,               \* history: call began non-forced with no entry for its key
    peers,                    \* history: threads serving the same key when the call began
    fetch_rid,                \* history: recomputation that wrote last_fetch_time[key]
    combined_len,             \* per thread: len(combined_df), -1 until it is computed
    input,                    \* analyze: the text passed in
    backend,                  \* analyze: what the pipeline did on this call
    analysis,                 \* analyze: the outcome of the call
    apc,                      \* analyze: "idle", "ready" or "done"
    in_texts,                 \* batch_analyze: the texts passed in
    in_batch_size,            \* batch_analyze: the batch_size passed in
    in_pipeline,              \* batch_analyze: what the pipeline does on each text's call
    sentiment_results,        \* what batch_analyze returned
    sentiment_summary,        \* what aggregate_sentiment returned
    bpc,                      \* "idle", "ready", "analyzed" or "aggregated"
    model,                    \* trend_predictor.py:28  TrendPredictor.model
    trained_on,               \* trend_predictor.py:29  TrendPredictor.trained_on
    fc_call,                  \* the last call made on the predictor and its outcome
    fc_calls,                 \* history: train and predict calls made so far
    fc_trained,               \* history: some train call has returned True
    forest,                   \* anomaly_detector.py:30  AnomalyDetector.model
    has_behaviour,            \* whether the installed IsolationForest takes 'behaviour'
    det_call,                 \* the last call made on the detector and its outcome
    det_calls,                \* history: fit and forest-detect calls made so far
    agg_call                  \* the last aggregation of classified records and its outcome

cache_vars == <<data_cache, last_fetch_time>>
thread_vars == <<pc, technology, force_refresh, github_issues,
                 stackoverflow_questions, combined_len, result>>
hist_vars == <<path, rid, nfetches, collector_calls, cold_start, peers, fetch_rid>>
vars == <<data_cache, last_fetch_time, now, upstream, pc, technology, force_refresh,
          github_issues, stackoverflow_questions, result, path, rid, nfetches,
          collector_calls, cold_start, peers, fetch_rid, combined_len,
          input, backend, analysis, apc,
          in_texts, in_batch_size, in_pipeline, sentiment_results,
          sentiment_summary, bpc,
          model, trained_on, fc_call, fc_calls, fc_trained,
          forest, has_behaviour, det_call, det_calls, agg_call>>

analyzer_vars == <<input, backend, analysis, apc>>
batch_vars == <<in_texts, in_batch_size, in_pipeline, sentiment_results,
                sentiment_summary, bpc>>
server_vars == <<data_cache, last_fetch_time, now, upstream, pc, technology,
                 force_refresh, github_issues, stackoverflow_questions, result,
                 path, rid, nfetches, collector_calls, cold_start, peers,
                 fetch_rid, combined_len>>

\* What the server's actions leave alone.
predictor_vars == <<model, trained_on, fc_call, fc_calls, fc_trained>>
detector_vars == <<forest, has_behaviour, det_call, det_calls>>
aggregator_vars == <<agg_call>>
outside_server == <<analyzer_vars, batch_vars, predictor_vars, detector_vars,
                    aggregator_vars>>

----------------------------------------------------------------------------
(* Bounds of the model *)

MaxTime == 2
HoursPerTick == 3
MaxFetches == 2
MaxTokens == 3
MaxBatch == 3
MaxBatchSize == 3
MaxPoints == 3
MaxDuplicates == 2
MaxCalls == 3
MaxDaysAhead == 2
MaxTrendPoints == 9
MaxStatPoints == 8
MaxSeriesDays == 22
MaxDetCalls == 2
MaxMalformed == 2
MaxRecords == 3

Threads == {"t1", "t2"}

\* Python's None, typed by where it stands: no dict, no datetime, no string.
NoResult == [kind |-> "none"]
NoTime == -1
NoName == <<>>

----------------------------------------------------------------------------
(* str.lower() *)

LowerChar(c) ==
    CASE c = "A" -> "a" [] c = "B" -> "b" [] c = "C" -> "c" [] c = "D" -> "d"
      [] c = "E" -> "e" [] c = "F" -> "f" [] c = "G" -> "g" [] c = "H" -> "h"
      [] c = "I" -> "i" [] c = "J" -> "j" [] c = "K" -> "k" [] c = "L" -> "l"
      [] c = "M" -> "m" [] c = "N" -> "n" [] c = "O" -> "o" [] c = "P" -> "p"
      [] c = "Q" -> "q" [] c = "R" -> "r" [] c = "S" -> "s" [] c = "T" -> "t"
      [] c = "U" -> "u" [] c = "V" -> "v" [] c = "W" -> "w" [] c = "X" -> "x"
      [] c = "Y" -> "y" [] c = "Z" -> "z" [] OTHER -> c

Lower(s) == [i \in 1..Len(s) |-> LowerChar(s[i])]

----------------------------------------------------------------------------
(* Collectors' tables and the requests the model issues *)

\* github_collector.py:182-193 (the keys)
TECH_REPOS ==
    { <<"r","e","a","c","t">>, <<"v","u","e">>, <<"a","n","g","u","l","a","r">>,
      <<"s","v","e","l","t","e">>, <<"n","e","x","t","j","s">>,
      <<"t","y","p","e","s","c","r","i","p","t">>, <<"p","y","t","h","o","n">>,
      <<"d","j","a","n","g","o">>, <<"f","l","a","s","k">>, <<"r","u","s","t">> }

\* stackoverflow_collector.py:172-183 (the keys)
TECH_TAGS ==
    { <<"r","e","a","c","t">>, <<"v","u","e">>, <<"a","n","g","u","l","a","r">>,
      <<"s","v","e","l","t","e">>, <<"n","e","x","t","j","s">>,
      <<"t","y","p","e","s","c","r","i","p","t">>, <<"p","y","t","h","o","n">>,
      <<"d","j","a","n","g","o">>, <<"f","l","a","s","k">>, <<"r","u","s","t">> }

\* The technology names requests carry: a known one in two spellings, an unknown one.
Technologies ==
    { <<"v","u","e">>, <<"V","u","e">>, <<"z","i","g">> }

\* server.py:51 without the case folding
cache_key_NoFold(tech) == tech

\* server.py:51
cache_key(tech) == Lower(tech)

\* The strings the two dicts can be indexed with.
DictKeys == Technologies \cup { Lower(tech) : tech \in Technologies }

cache_duration == 6
max_issues == 50
max_questions == 50
MinTrainPoints == 10

\* The sites' content while the model runs: how many issues and questions the
\* collectors find for a known technology, on how many distinct dates, and whether
\* Prophet can fit them.  One environment per shape of the sources and per
\* outcome of server.py:124-129.
Upstreams ==
    { [issues |-> 0, questions |-> 0, days |-> 0, fits |-> FALSE],
      [issues |-> max_issues, questions |-> 0, days |-> MinTrainPoints - 1, fits |-> TRUE],
      [issues |-> 0, questions |-> max_questions, days |-> MinTrainPoints, fits |-> TRUE],
      [issues |-> max_issues, questions |-> max_questions, days |-> MinTrainPoints,
       fits |-> FALSE] }

----------------------------------------------------------------------------
(* Result dicts *)

\* server.py:96-99 and 175-178
ErrorResult(msg, tech) ==
    [kind |-> "error", error |-> msg, technology |-> tech]

InsufficientData == "Insufficient data"
Forecast == "forecast"

\* server.py:140-163; rid is history: the recomputation that built the dict.
Report(tech, updated, points, preds, gh, so, id) ==
    [kind |-> "report", technology |-> tech, last_updated |-> updated,
     data_points |-> points, predictions |-> preds,
     sources |-> [github |-> gh, stackoverflow |-> so], rid |-> id]

----------------------------------------------------------------------------
(* DevSentimentAnalyzer (backend/ml/sentiment_analyzer.py) *)

\* sentiment_analyzer.py:42-46
frustration_critical ==
    { <<"w","t","f">>, <<"g","a","r","b","a","g","e">>,
      <<"t","e","r","r","i","b","l","e">>, <<"u","s","e","l","e","s","s">>,
      <<"w","o","r","s","t">> }
frustration_high ==
    { <<"b","u","g">>, <<"b","r","o","k","e","n">>, <<"c","r","a","s","h">>,
      <<"e","r","r","o","r">>, <<"f","a","i","l","e","d">>,
      <<"d","o","e","s","n","'","t"," ","w","o","r","k">> }
frustration_medium ==
    { <<"i","s","s","u","e">>, <<"p","r","o","b","l","e","m">>,
      <<"c","o","n","f","u","s","e","d">>,
      <<"s","t","r","u","g","g","l","i","n","g">>, <<"h","e","l","p">> }

\* sentiment_analyzer.py:48-52
satisfaction_high ==
    { <<"l","o","v","e">>, <<"a","m","a","z","i","n","g">>,
      <<"a","w","e","s","o","m","e">>, <<"e","x","c","e","l","l","e","n","t">>,
      <<"p","e","r","f","e","c","t">> }
satisfaction_medium ==
    { <<"g","o","o","d">>, <<"n","i","c","e">>, <<"w","o","r","k","s">>,
      <<"h","e","l","p","f","u","l">>, <<"t","h","a","n","k","s">> }
satisfaction_low ==
    { <<"o","k">>, <<"f","i","n","e">>, <<"d","e","c","e","n","t">> }

\* The grave accent, the one character of these texts a TLA+ string cannot hold.
Backtick == "GRAVE"

\* The pieces the model's texts are made of: a blank, words of each lexicon (one
\* capitalised), a URL and an inline code span.
Vocabulary ==
    { <<" ">>, <<"b","u","g">>, <<"c","r","a","s","h">>,
      <<"G","a","r","b","a","g","e">>, <<"l","o","v","e">>, <<"g","o","o","d">>,
      <<"h","e","l","p">>, <<"i","s","s","u","e">>,
      <<"h","t","t","p",":","/","/","a">>, <<Backtick,"x",Backtick>> }

\* Texts of up to MaxTokens pieces.
RECURSIVE TextsOfLen(_)
TextsOfLen(n) ==
    IF n = 0 THEN { <<>> }
    ELSE { w \o t : w \in Vocabulary, t \in TextsOfLen(n - 1) }

Texts == UNION { TextsOfLen(n) : n \in 0..MaxTokens }

\* What the transformers pipeline does with one input: it raises, or it returns
\* one class (the model's POSITIVE or NEGATIVE, or any other name) with a score.
BackendLabels == { "POSITIVE", "NEGATIVE", "LABEL_0" }
BackendScores == { 0, 50, 100 }
Backends ==
    { [raises |-> TRUE, label |-> "", score |-> 0] }
    \cup { [raises |-> FALSE, label |-> l, score |-> x] :
             l \in BackendLabels, x \in BackendScores }
NoBackend == [raises |-> FALSE, label |-> "", score |-> -1]

\* Whitespace as str.strip(), str.split() and the regex class \S see it.
IsSpace(c) == c \in { " ", "\t", "\n", "\r", "\f" }

RECURSIVE LStrip(_)
LStrip(s) == IF s # <<>> /\ IsSpace(Head(s)) THEN LStrip(Tail(s)) ELSE s

RECURSIVE RStrip(_)
RStrip(s) ==
    IF s # <<>> /\ IsSpace(s[Len(s)]) THEN RStrip(SubSeq(s, 1, Len(s) - 1)) ELSE s

\* str.strip()
Strip(s) == RStrip(LStrip(s))

StartsWith(s, p) == Len(s) >= Len(p) /\ SubSeq(s, 1, Len(p)) = p

\* `w in s` for strings
Contains(w, s) ==
    \E i \in 1..(Len(s) - Len(w) + 1) : SubSeq(s, i, i + Len(w) - 1) = w

\* First index >= i at which p occurs in s, or 0.
RECURSIVE FindFrom(_, _, _)
FindFrom(p, s, i) ==
    IF i + Len(p) - 1 > Len(s) THEN 0
    ELSE IF SubSeq(s, i, i + Len(p) - 1) = p THEN i
    ELSE FindFrom(p, s, i + 1)

\* Length of the run of non-blank characters of s that starts at i.
RECURSIVE NonSpaceRun(_, _)
NonSpaceRun(s, i) ==
    IF i <= Len(s) /\ ~IsSpace(s[i]) THEN 1 + NonSpaceRun(s, i + 1) ELSE 0

\* sentiment_analyzer.py:62  length of the match of http\S+|www.\S+ at the head
\* of s, 0 when there is none.
UrlMatchLen(s) ==
    IF StartsWith(s, <<"h","t","t","p">>) /\ NonSpaceRun(s, 5) > 0
    THEN 4 + NonSpaceRun(s, 5)
    ELSE IF /\ StartsWith(s, <<"w","w","w">>)
            /\ Len(s) >= 5
            /\ s[4] # "\n"
            /\ NonSpaceRun(s, 5) > 0
    THEN 4 + NonSpaceRun(s, 5)
    ELSE 0

\* sentiment_analyzer.py:65  match of ```[\s\S]*?``` at the head of s
FencedMatchLen(s) ==
    IF StartsWith(s, <<Backtick,Backtick,Backtick>>)
    THEN LET j == FindFrom(<<Backtick,Backtick,Backtick>>, s, 4) IN IF j > 0 THEN j + 2 ELSE 0
    ELSE 0

\* sentiment_analyzer.py:66  match of `[^`]*` at the head of s
InlineMatchLen(s) ==
    IF StartsWith(s, <<Backtick>>)
    THEN FindFrom(<<Backtick>>, s, 2)
    ELSE 0

\* re.sub(pattern, '', s) for the three patterns
RECURSIVE RemoveUrls(_)
RemoveUrls(s) ==
    IF s = <<>> THEN <<>>
    ELSE LET m == UrlMatchLen(s) IN
         IF m > 0 THEN RemoveUrls(SubSeq(s, m + 1, Len(s)))
         ELSE <<Head(s)>> \o RemoveUrls(Tail(s))

RECURSIVE RemoveFenced(_)
RemoveFenced(s) ==
    IF s = <<>> THEN <<>>
    ELSE LET m == FencedMatchLen(s) IN
         IF m > 0 THEN RemoveFenced(SubSeq(s, m + 1, Len(s)))
         ELSE <<Head(s)>> \o RemoveFenced(Tail(s))

RECURSIVE RemoveInline(_)
RemoveInline(s) ==
    IF s = <<>> THEN <<>>
    ELSE LET m == InlineMatchLen(s) IN
         IF m > 0 THEN RemoveInline(SubSeq(s, m + 1, Len(s)))
         ELSE <<Head(s)>> \o RemoveInline(Tail(s))

\* sentiment_analyzer.py:69  ' '.join(s.split())
RECURSIVE Collapse(_)
Collapse(s) ==
    IF s = <<>> THEN <<>>
    ELSE IF IsSpace(Head(s)) THEN <<" ">> \o Collapse(LStrip(s))
    ELSE <<Head(s)>> \o Collapse(Tail(s))

JoinSplit(s) == Collapse(Strip(s))

max_length == 512

\* sentiment_analyzer.py:56-71
preprocess_text(text) ==
    IF text = <<>> THEN <<>>
    ELSE LET t == JoinSplit(RemoveInline(RemoveFenced(RemoveUrls(text)))) IN
         SubSeq(t, 1, IF Len(t) < max_length THEN Len(t) ELSE max_length)

\* sum(1 for word in words if word in text_lower)
Hits(words, text_lower) == Cardinality({ w \in words : Contains(w, text_lower) })

\* sentiment_analyzer.py:73-102
detect_frustration_level(text) ==
    LET text_lower == Lower(text) IN
    IF Hits(frustration_critical, text_lower) >= 1
    THEN [level |-> "critical", score |-> 95]
    ELSE IF Hits(frustration_high, text_lower) >= 2
    THEN [level |-> "high", score |-> 85]
    ELSE IF Hits(frustration_high, text_lower) = 1
    THEN [level |-> "medium", score |-> 65]
    ELSE IF Hits(frustration_medium, text_lower) >= 2
    THEN [level |-> "medium", score |-> 70]
    ELSE [level |-> "low", score |-> 30]

\* sentiment_analyzer.py:104-122
detect_satisfaction_level(text) ==
    LET text_lower == Lower(text) IN
    IF Hits(satisfaction_high, text_lower) >= 1
    THEN [level |-> "high", score |-> 90]
    ELSE IF Hits(satisfaction_medium, text_lower) >= 2
    THEN [level |-> "medium", score |-> 75]
    ELSE IF Hits(satisfaction_medium, text_lower) = 1
    THEN [level |-> "low", score |-> 60]
    ELSE [level |-> "none", score |-> 40]

Absent == "absent"

\* A dict analyze returns; the keys an early return leaves out are Absent.
Sentiment(label, score, confidence, reasoning, base, fl, sl) ==
    [label |-> label, score |-> score, confidence |-> confidence,
     reasoning |-> reasoning,
     base_sentiment |-> IF base = NoBackend THEN Absent ELSE base.label,
     base_score |-> base.score,
     frustration_level |-> fl, satisfaction_level |-> sl]

NoSentiment == Sentiment(Absent, -1, Absent, Absent, NoBackend, Absent, Absent)

\* sentiment_analyzer.py:196-202  label_map.get(label, 'NEUTRAL')
label_map(label) ==
    IF label \in { "POSITIVE", "NEGATIVE" } THEN label ELSE "NEUTRAL"

\* sentiment_analyzer.py:165-210: what analyze returns once the pipeline has
\* answered with base_result.
Classify(text, base_result) ==
    LET f == detect_frustration_level(text)
        sat == detect_satisfaction_level(text)
    IN
    IF f.level \in { "critical", "high" }
    THEN Sentiment("FRUSTRATED", f.score, "high",
                   IF f.level = "critical" THEN "Critical frustration detected"
                   ELSE "High frustration detected",
                   base_result, f.level, sat.level)
    ELSE IF sat.level = "high"
    THEN Sentiment("SATISFIED", sat.score, "high", "High satisfaction detected",
                   base_result, f.level, sat.level)
    ELSE Sentiment(label_map(base_result.label), base_result.score, "medium",
                   "Base transformer classification",
                   base_result, f.level, sat.level)

\* sentiment_analyzer.py:134-151: the two guards before the pipeline is invoked
TooShort(text) == text = <<>> \/ Len(Strip(text)) < 5

\* sentiment_analyzer.py:124-210 without the try/except round the pipeline
analyze_NoTry(text, b) ==
    IF TooShort(text)
    THEN [raised |-> FALSE, invoked |-> FALSE, value |->
             Sentiment("NEUTRAL", 50, "low", "Text too short for analysis",
                       NoBackend, Absent, Absent)]
    ELSE IF preprocess_text(text) = <<>>
    THEN [raised |-> FALSE, invoked |-> FALSE, value |->
             Sentiment("NEUTRAL", 50, "low", "No meaningful text after preprocessing",
                       NoBackend, Absent, Absent)]
    ELSE IF b.raises
    THEN [raised |-> TRUE, invoked |-> TRUE, value |-> NoSentiment]
    ELSE [raised |-> FALSE, invoked |-> TRUE, value |-> Classify(text, b)]

\* sentiment_analyzer.py:124-210: the call's outcome with pipeline behaviour b:
\* the dict returned, or raised when an exception leaves analyze; invoked tells
\* whether the call reached self.sentiment_pipeline (line 155).
analyze(text, b) ==
    IF TooShort(text)
    THEN [raised |-> FALSE, invoked |-> FALSE, value |->
             Sentiment("NEUTRAL", 50, "low", "Text too short for analysis",
                       NoBackend, Absent, Absent)]
    ELSE IF preprocess_text(text) = <<>>
    THEN [raised |-> FALSE, invoked |-> FALSE, value |->
             Sentiment("NEUTRAL", 50, "low", "No meaningful text after preprocessing",
                       NoBackend, Absent, Absent)]
    ELSE IF b.raises
    THEN [raised |-> FALSE, invoked |-> TRUE, value |->
             Sentiment("NEUTRAL", 50, "low", "Analysis failed",
                       NoBackend, Absent, Absent)]
    ELSE [raised |-> FALSE, invoked |-> TRUE, value |-> Classify(text, b)]

NoOutcome == [raised |-> FALSE, invoked |-> FALSE, value |-> NoSentiment]

----------------------------------------------------------------------------
(* batch_analyze and aggregate_sentiment *)

\* sentiment_analyzer.py:225-228 with a loop that stops before a last batch that
\* is not full
RECURSIVE batch_loop_DropsPartial(_, _, _, _)
batch_loop_DropsPartial(texts, pipeline, batch_size, i) ==
    IF i + batch_size > Len(texts) THEN <<>>
    ELSE LET batch_results ==
                 [j \in 1..batch_size |-> analyze(texts[i + j], pipeline[i + j]).value]
         IN batch_results \o batch_loop_DropsPartial(texts, pipeline, batch_size,
                                                     i + batch_size)

\* sentiment_analyzer.py:225-228: the passes of `for i in range(0, len(texts),
\* batch_size)` from index i (0-based) on; pipeline[k] is what the pipeline does
\* when analyze is called on the k-th text.
RECURSIVE batch_loop(_, _, _, _)
batch_loop(texts, pipeline, batch_size, i) ==
    IF i >= Len(texts) THEN <<>>
    ELSE LET hi == IF i + batch_size < Len(texts) THEN i + batch_size ELSE Len(texts)
             batch_results ==
                 [j \in 1..(hi - i) |-> analyze(texts[i + j], pipeline[i + j]).value]
         IN batch_results \o batch_loop(texts, pipeline, batch_size, i + batch_size)

\* sentiment_analyzer.py:212-235
batch_analyze(texts, pipeline, batch_size) == batch_loop(texts, pipeline, batch_size, 0)

\* A quotient a / b of the aggregation, kept exact.
Ratio(a, b) == [num |-> a, den |-> b]

\* sentiment_analyzer.py:262 with the count set, not incremented
CountLabel_NoIncrement(counts, label) ==
    IF \E i \in 1..Len(counts) : counts[i].label = label
    THEN [i \in 1..Len(counts) |->
             IF counts[i].label = label
             THEN [label |-> label, count |-> 1]
             ELSE counts[i]]
    ELSE Append(counts, [label |-> label, count |-> 1])

\* sentiment_analyzer.py:262  label_counts[label] = label_counts.get(label, 0) + 1
\* on a dict, which keeps its keys in the order of their first insertion.
CountLabel(counts, label) ==
    IF \E i \in 1..Len(counts) : counts[i].label = label
    THEN [i \in 1..Len(counts) |->
             IF counts[i].label = label
             THEN [label |-> label, count |-> counts[i].count + 1]
             ELSE counts[i]]
    ELSE Append(counts, [label |-> label, count |-> 1])

\* sentiment_analyzer.py:255-263: label_counts after the first n results
RECURSIVE label_counts(_, _)
label_counts(results, n) ==
    IF n = 0 THEN <<>>
    ELSE CountLabel(label_counts(results, n - 1), results[n].label)

\* sentiment_analyzer.py:256-263: total_score after the first n results
RECURSIVE total_score(_, _)
total_score(results, n) ==
    IF n = 0 THEN 0 ELSE total_score(results, n - 1) + results[n].score

\* max(...) keeping the last of several maximal keys
RECURSIVE MaxKey_LastWins(_, _)
MaxKey_LastWins(counts, n) ==
    IF n = 1 THEN 1
    ELSE LET best == MaxKey_LastWins(counts, n - 1) IN
         IF counts[n].count >= counts[best].count THEN n ELSE best

\* sentiment_analyzer.py:278: max(label_counts, key=label_counts.get) over the
\* first n keys: the index of the first key whose count no other exceeds.
RECURSIVE MaxKey(_, _)
MaxKey(counts, n) ==
    IF n = 1 THEN 1
    ELSE LET best == MaxKey(counts, n - 1) IN
         IF counts[n].count > counts[best].count THEN n ELSE best

\* sentiment_analyzer.py:237-279
aggregate_sentiment(results) ==
    IF results = <<>>
    THEN [average_score |-> Ratio(50, 1),
          sentiment_distribution |-> <<>>,
          frustration_rate |-> Ratio(0, 1),
          satisfaction_rate |-> Ratio(0, 1)]
    ELSE LET total == Len(results)
             counts == label_counts(results, total)
             frustrated_count ==
                 Cardinality({ i \in 1..total : results[i].label = "FRUSTRATED" })
             satisfied_count ==
                 Cardinality({ i \in 1..total : results[i].label = "SATISFIED" })
         IN [average_score |-> Ratio(total_score(results, total), total),
             sentiment_distribution |->
                 [i \in 1..Len(counts) |->
                     [label |-> counts[i].label,
                      share |-> Ratio(counts[i].count, total)]],
             frustration_rate |-> Ratio(frustrated_count, total),
             satisfaction_rate |-> Ratio(satisfied_count, total),
             total_analyzed |-> total,
             dominant_sentiment |-> counts[MaxKey(counts, Len(counts))].label]

NoSummary == [kind |-> "none"]

\* Texts handed to batch_analyze: too short, critical frustration, high
\* satisfaction, and one whose label is the pipeline's.
BatchTexts ==
    { <<"b","u","g">>,
      <<"G","a","r","b","a","g","e">>,
      <<"l","o","v","e","g","o","o","d">>,
      <<"i","s","s","u","e">> }

BatchBackends ==
    { [raises |-> TRUE, label |-> "", score |-> 0],
      [raises |-> FALSE, label |-> "POSITIVE", score |-> 100],
      [raises |-> FALSE, label |-> "NEGATIVE", score |-> 0] }

SeqsUpTo(S, n) == UNION { [1..k -> S] : k \in 0..n }

----------------------------------------------------------------------------
(* TrendPredictor: prepare_data, train, predict *)

\* trend_predictor.py:46  pd.to_datetime of a calendar date: the timestamp of its
\* midnight, counted here in hours.
to_datetime(date) == date * 24

\* The ds values of the rows, in ascending order.
RECURSIVE SortedDs(_)
SortedDs(D) ==
    IF D = {} THEN <<>>
    ELSE LET m == CHOOSE x \in D : \A y \in D : x <= y IN
         <<m>> \o SortedDs(D \ {m})

RowsWithDs(historical_data, ds) ==
    { i \in 1..Len(historical_data) : to_datetime(historical_data[i].date) = ds }

\* trend_predictor.py:50-53: sort_values('ds') sorts with pandas' default
\* kind='quicksort', which is not stable: of the rows with one ds any may come
\* first, and drop_duplicates(subset=['ds']) keeps the row that comes first.
\* KeptRows gives, for the first k distinct ds in ascending order, every choice
\* of the input rows that can be kept.
RECURSIVE KeptRows(_, _, _)
KeptRows(historical_data, ds_sorted, k) ==
    IF k = 0 THEN { <<>> }
    ELSE { Append(keep, i) :
             keep \in KeptRows(historical_data, ds_sorted, k - 1),
             i \in RowsWithDs(historical_data, ds_sorted[k]) }

SortOutcomes(historical_data) ==
    LET ds_sorted ==
            SortedDs({ to_datetime(historical_data[i].date) :
                         i \in 1..Len(historical_data) })
    IN KeptRows(historical_data, ds_sorted, Len(ds_sorted))

\* trend_predictor.py:32-55: the frame returned when the sort and the duplicate
\* removal keep the input rows keep[1], keep[2], ...
prepare_data(historical_data, keep) ==
    IF historical_data = <<>> THEN <<>>
    ELSE [k \in 1..Len(keep) |->
             [ds |-> to_datetime(historical_data[keep[k]].date),
              y |-> historical_data[keep[k]].sentiment_score]]

NoModel == [kind |-> "none", fitted |-> FALSE]

\* trend_predictor.py:72  if len(df) < 10
MinFitRows == 10

\* trend_predictor.py:77-85  Prophet(...), not yet fitted
NewProphet == [kind |-> "prophet", fitted |-> FALSE]

\* trend_predictor.py:57-96 with the minimum tested on the input list
train_CountsInputRows(self_model, self_trained_on, historical_data, tech, keep, fit_ok) ==
    IF Len(historical_data) < MinFitRows
    THEN [returned |-> FALSE, model |-> self_model, trained_on |-> self_trained_on]
    ELSE IF fit_ok
    THEN [returned |-> TRUE,
          model |-> [kind |-> "prophet", fitted |-> TRUE],
          trained_on |-> tech]
    ELSE [returned |-> FALSE, model |-> NewProphet, trained_on |-> self_trained_on]

\* trend_predictor.py:57-96: what train returns and what it leaves in self.model
\* and self.trained_on; fit_ok tells whether self.model.fit(df) returns (line 89)
\* or raises (line 93).
train(self_model, self_trained_on, historical_data, tech, keep, fit_ok) ==
    LET df == prepare_data(historical_data, keep) IN
    IF Len(df) < MinFitRows
    THEN [returned |-> FALSE, model |-> self_model, trained_on |-> self_trained_on]
    ELSE IF fit_ok
    THEN [returned |-> TRUE,
          model |-> [kind |-> "prophet", fitted |-> TRUE],
          trained_on |-> tech]
    ELSE [returned |-> FALSE, model |-> NewProphet, trained_on |-> self_trained_on]

\* trend_predictor.py:108-112
ModelNotTrained == [error |-> "Model not trained", predictions |-> <<>>]

RECURSIVE SumWidth(_, _)
SumWidth(rows, n) ==
    IF n = 0 THEN 0
    ELSE SumWidth(rows, n - 1) + (rows[n].yhat_upper - rows[n].yhat_lower)

\* trend_predictor.py:125-127  max(0, min(100, 100 - mean(width) * 100))
Confidence(rows) ==
    LET n == Len(rows)
        num == 100 * n - 100 * SumWidth(rows, n)
    IN IF num < 0 THEN Ratio(0, 1)
       ELSE IF num > 100 * n THEN Ratio(100, 1)
       ELSE Ratio(num, n)

\* trend_predictor.py:98-146: the outcome of predict; forecast is the tail of
\* days_ahead rows that Prophet's predict gives for a fitted model.  On a Prophet
\* object that was never fitted make_future_dataframe (line 115) raises.
predict(self_model, self_trained_on, days_ahead, forecast) ==
    IF self_model = NoModel
    THEN [raised |-> FALSE, returned |-> ModelNotTrained]
    ELSE IF ~self_model.fitted
    THEN [raised |-> TRUE, returned |-> NoResult]
    ELSE LET recent_trend == forecast[days_ahead].yhat - forecast[1].yhat IN
         [raised |-> FALSE,
          returned |->
             [technology |-> self_trained_on,
              predictions |->
                  [i \in 1..days_ahead |->
                      [predicted_score |-> forecast[i].yhat,
                       lower_bound |-> forecast[i].yhat_lower,
                       upper_bound |-> forecast[i].yhat_upper]],
              trend_direction |->
                  IF recent_trend > 0 THEN "up"
                  ELSE IF recent_trend < 0 THEN "down" ELSE "stable",
              trend_strength |-> IF recent_trend < 0 THEN -recent_trend ELSE recent_trend,
              confidence |-> Confidence(forecast),
              forecast_days |-> days_ahead]]

\* Series.tail(k) and Series.head(k) of a frame of n rows: the rows they select.
tail_rows(n, k) == { i \in 1..n : i > n - k }
head_rows(n, k) == { i \in 1..n : i <= k }

RECURSIVE SumY(_, _)
SumY(df, rows) ==
    IF rows = {} THEN 0
    ELSE LET i == CHOOSE j \in rows : TRUE IN df[i].y + SumY(df, rows \ {i})

RECURSIVE SumYSquared(_, _)
SumYSquared(df, rows) ==
    IF rows = {} THEN 0
    ELSE LET i == CHOOSE j \in rows : TRUE IN
         df[i].y * df[i].y + SumYSquared(df, rows \ {i})

\* trend_predictor.py:164-165: the length of the recent window
trend_window == 7

\* trend_predictor.py:164  df['y'].tail(7), with one point fewer
recent_window_Short(n) == tail_rows(n, trend_window - 1)

\* trend_predictor.py:164  df['y'].tail(7)
recent_window(n) == tail_rows(n, trend_window)

\* trend_predictor.py:165  df['y'].head(max(1, len(df) - 7))
older_window(n) ==
    head_rows(n, IF n - trend_window >= 1 THEN n - trend_window ELSE 1)

\* trend_predictor.py:148-182: analyze_trend on the frame that prepare_data
\* returns when it keeps the rows keep.  Means are exact quotients; the
\* volatility (the sample standard deviation) is given by its square.
analyze_trend(historical_data, keep) ==
    LET df == prepare_data(historical_data, keep)
        n == Len(df)
        recent == recent_window(n)
        older == older_window(n)
        recent_avg == Ratio(SumY(df, recent), Cardinality(recent))
        older_avg == Ratio(SumY(df, older), Cardinality(older))
        total == SumY(df, 1..n)
    IN IF n < 2 THEN [error |-> InsufficientData]
       ELSE [current_score |-> df[n].y,
             average_score |-> Ratio(total, n),
             trend_change_percent |->
                 IF older_avg.num # 0
                 THEN Ratio((recent_avg.num * older_avg.den
                               - older_avg.num * recent_avg.den) * 100,
                            recent_avg.den * older_avg.num)
                 ELSE Ratio(0, 1),
             volatility_squared |->
                 Ratio(n * SumYSquared(df, 1..n) - total * total, n * (n - 1)),
             data_points |-> n,
             date_range |-> [start |-> df[1].ds, end |-> df[n].ds]]

\* Inputs.  Short series: every list of up to MaxPoints points over three dates
\* and two scores.
SeriesDates == { 1, 2, 3 }
SeriesScores == { 10, 20 }
HistoryPoints == [date : SeriesDates, sentiment_score : SeriesScores]
ShortSeries == SeqsUpTo(HistoryPoints, MaxPoints)

\* Long series: n points on n distinct dates, latest first, followed by dup
\* points that repeat the dates 1..dup with another score.
LongSeries(n, dup) ==
    [i \in 1..(n + dup) |->
        IF i <= n
        THEN [date |-> n + 1 - i, sentiment_score |-> 10]
        ELSE [date |-> i - n, sentiment_score |-> 20]]

TrainSeries ==
    { LongSeries(n, dup) :
        n \in { MinFitRows - 1, MinFitRows }, dup \in 0..MaxDuplicates }
    \cup SeqsUpTo(HistoryPoints, 1)

\* Step series for analyze_trend: n points on the dates 1..n, the first a of
\* them at one score and the rest at another.
StepScores == { 0, 10, 20 }
StepSeries(n, a, lo, hi) ==
    [i \in 1..n |-> [date |-> i, sentiment_score |-> IF i <= a THEN lo ELSE hi]]
TrendSeries ==
    { StepSeries(n, a, lo, hi) :
        n \in 0..MaxTrendPoints, a \in 0..MaxTrendPoints, lo \in StepScores,
        hi \in StepScores }
    \cup ShortSeries

TrainNames == { <<"v","u","e">>, <<"r","u","s","t">> }

\* Rows of a forecast: yhat, yhat_lower and yhat_upper as Prophet computes them;
\* nothing in this repository relates the three.
ForecastValues == { 0, 1 }
ForecastRows ==
    [yhat : ForecastValues, yhat_lower : ForecastValues, yhat_upper : ForecastValues]

NoCall ==
    [op |-> "none", historical_data |-> <<>>, technology |-> NoName,
     days_ahead |-> 0, before |-> [model |-> NoModel, trained_on |-> NoName],
     df |-> <<>>, raised |-> FALSE, returned |-> NoResult]

\* anomaly_detector.py:30  self.model = None
NoForest == [kind |-> "none", fitted_on |-> <<>>]

NoDetCall ==
    [op |-> "none", historical_data |-> <<>>, before |-> NoForest, df |-> <<>>,
     rolling_mean |-> <<>>, baseline |-> <<>>, window |-> 0,
     threshold |-> Ratio(0, 1), preds |-> {}, scored |-> FALSE,
     raised |-> FALSE, ok |-> FALSE, returned |-> <<>>]

NoAggCall == [op |-> "none", records |-> <<>>, raised |-> FALSE, returned |-> <<>>]

----------------------------------------------------------------------------
(* get_cached_or_fetch *)

\* server.py:55-57 with the comparison turned round
CacheFresh_Inverted(k, force) ==
    /\ ~force
    /\ data_cache[k] # NoResult
    /\ last_fetch_time[k] # NoTime
    /\ (now - last_fetch_time[k]) * HoursPerTick > cache_duration

\* server.py:55-57 without the force_refresh test
CacheFresh_IgnoresForce(k, force) ==
    /\ data_cache[k] # NoResult
    /\ last_fetch_time[k] # NoTime
    /\ (now - last_fetch_time[k]) * HoursPerTick < cache_duration

\* server.py:55-57
CacheFresh(k, force) ==
    /\ ~force
    /\ data_cache[k] # NoResult
    /\ last_fetch_time[k] # NoTime
    /\ (now - last_fetch_time[k]) * HoursPerTick < cache_duration

Recomputing(t) == pc[t] \in {"collect", "process", "store_report", "store_time"}

Busy(t) == pc[t] = "cached" \/ Recomputing(t)

ServerInit ==
    /\ data_cache = [k \in DictKeys |-> NoResult]
    /\ last_fetch_time = [k \in DictKeys |-> NoTime]
    /\ now = 0
    /\ upstream \in Upstreams
    /\ pc = [t \in Threads |-> "idle"]
    /\ technology = [t \in Threads |-> NoName]
    /\ force_refresh = [t \in Threads |-> FALSE]
    /\ github_issues = [t \in Threads |-> 0]
    /\ stackoverflow_questions = [t \in Threads |-> 0]
    /\ combined_len = [t \in Threads |-> -1]
    /\ result = [t \in Threads |-> NoResult]
    /\ path = [t \in Threads |-> "none"]
    /\ rid = [t \in Threads |-> 0]
    /\ nfetches = 0
    /\ collector_calls = [t \in Threads |-> 0]
    /\ cold_start = [t \in Threads |-> FALSE]
    /\ peers = [t \in Threads |-> {}]
    /\ fetch_rid = [k \in DictKeys |-> 0]

AnalyzerIdle ==
    /\ input = <<>>
    /\ backend = NoBackend
    /\ analysis = NoOutcome
    /\ apc = "idle"

\* trend_predictor.py:27-30  TrendPredictor.__init__
PredictorIdle ==
    /\ model = NoModel
    /\ trained_on = NoName
    /\ fc_call = NoCall
    /\ fc_calls = 0
    /\ fc_trained = FALSE

\* anomaly_detector.py:22-31  AnomalyDetector.__init__
DetectorIdle ==
    /\ forest = NoForest
    /\ has_behaviour = FALSE
    /\ det_call = NoDetCall
    /\ det_calls = 0

AggregatorIdle == agg_call = NoAggCall

BatchIdle ==
    /\ in_texts = <<>>
    /\ in_batch_size = 1
    /\ in_pipeline = <<>>
    /\ sentiment_results = <<>>
    /\ sentiment_summary = NoSummary
    /\ bpc = "idle"

\* server.py:212-214 and 51-61: a request arrives and the cache check is evaluated.
Call(t, tech, force) ==
    /\ pc[t] = "idle"
    /\ LET k == cache_key(tech)
           hit == CacheFresh(k, force)
       IN
        /\ hit \/ nfetches < MaxFetches
        /\ pc' = [pc EXCEPT ![t] = IF hit THEN "cached" ELSE "collect"]
        /\ path' = [path EXCEPT ![t] = IF hit THEN "hit" ELSE "fetch"]
        /\ nfetches' = IF hit THEN nfetches ELSE nfetches + 1
        /\ rid' = [rid EXCEPT ![t] = IF hit THEN 0 ELSE nfetches + 1]
        /\ cold_start' = [cold_start EXCEPT ![t] = ~force /\ data_cache[k] = NoResult]
        /\ peers' = [peers EXCEPT ![t] =
               {u \in Threads \ {t} : Busy(u) /\ cache_key(technology[u]) = k}]
    /\ technology' = [technology EXCEPT ![t] = tech]
    /\ force_refresh' = [force_refresh EXCEPT ![t] = force]
    /\ UNCHANGED <<data_cache, last_fetch_time, now, upstream, github_issues,
                   stackoverflow_questions, combined_len, result, collector_calls,
                   fetch_rid>>
    /\ UNCHANGED outside_server

\* server.py:58-59
ReturnCached(t) ==
    /\ pc[t] = "cached"
    /\ result' = [result EXCEPT ![t] = data_cache[cache_key(technology[t])]]
    /\ pc' = [pc EXCEPT ![t] = "done"]
    /\ UNCHANGED <<data_cache, last_fetch_time, now, upstream, technology,
                   force_refresh, github_issues, stackoverflow_questions,
                   combined_len, hist_vars>>
    /\ UNCHANGED outside_server

\* server.py:63-83: the two collectors, each called only for a technology its table
\* knows.  collect_issues raises when its rate-limit request fails
\* (github_collector.py:41 and 101), which ends the call at server.py:171-178;
\* collect_questions catches its request errors and returns what it has.
Collect(t) ==
    /\ pc[t] = "collect"
    /\ LET k == cache_key(technology[t])
           gh_called == k \in TECH_REPOS
           so_called == k \in TECH_TAGS
       IN
        \/ /\ gh_called
           /\ result' = [result EXCEPT ![t] =
                  ErrorResult("collector raised", technology[t])]
           /\ pc' = [pc EXCEPT ![t] = "done"]
           /\ collector_calls' = [collector_calls EXCEPT ![t] = 1]
           /\ UNCHANGED <<github_issues, stackoverflow_questions>>
        \/ /\ github_issues' = [github_issues EXCEPT ![t] =
                  IF gh_called THEN upstream.issues ELSE 0]
           /\ stackoverflow_questions' = [stackoverflow_questions EXCEPT ![t] =
                  IF so_called THEN upstream.questions ELSE 0]
           /\ collector_calls' = [collector_calls EXCEPT ![t] =
                  (IF gh_called THEN 1 ELSE 0) + (IF so_called THEN 1 ELSE 0)]
           /\ pc' = [pc EXCEPT ![t] = "process"]
           /\ UNCHANGED result
    /\ UNCHANGED <<data_cache, last_fetch_time, now, upstream, technology,
                   force_refresh, combined_len, path, rid, nfetches, cold_start,
                   peers, fetch_rid>>
    /\ UNCHANGED outside_server

\* server.py:122-129 without the test of line 126 on the number of daily points
Predictions_NoLengthTest(n_days, train_ok) ==
    IF train_ok THEN Forecast ELSE InsufficientData

\* server.py:122-129: predictions stay the insufficient-data marker unless there
\* are at least 10 daily points and train returns True.
Predictions(n_days, train_ok) ==
    IF n_days >= MinTrainPoints /\ train_ok THEN Forecast ELSE InsufficientData

\* server.py:85-163 and 171-178: an empty frame ends the call with the
\* 'No data available' dict, an exception in processing with the str(e) dict,
\* and otherwise the result dict is built.
Process(t) ==
    /\ pc[t] = "process"
    /\ LET points == github_issues[t] + stackoverflow_questions[t] IN
        /\ combined_len' = [combined_len EXCEPT ![t] = points]
        /\ \/ /\ points = 0
              /\ result' = [result EXCEPT ![t] =
                     ErrorResult("No data available", technology[t])]
              /\ pc' = [pc EXCEPT ![t] = "done"]
           \/ /\ points > 0
              /\ result' = [result EXCEPT ![t] =
                     ErrorResult("processing raised", technology[t])]
              /\ pc' = [pc EXCEPT ![t] = "done"]
           \/ /\ points > 0
              /\ result' = [result EXCEPT ![t] =
                     Report(technology[t], now, points,
                            Predictions(upstream.days, upstream.fits),
                            github_issues[t], stackoverflow_questions[t], rid[t])]
              /\ pc' = [pc EXCEPT ![t] = "store_report"]
    /\ UNCHANGED <<data_cache, last_fetch_time, now, upstream, technology,
                   force_refresh, github_issues, stackoverflow_questions, hist_vars>>
    /\ UNCHANGED outside_server

\* server.py:166
StoreReport(t) ==
    /\ pc[t] = "store_report"
    /\ data_cache' = [data_cache EXCEPT ![cache_key(technology[t])] = result[t]]
    /\ pc' = [pc EXCEPT ![t] = "store_time"]
    /\ UNCHANGED <<last_fetch_time, now, upstream, technology, force_refresh,
                   github_issues, stackoverflow_questions, combined_len, result,
                   hist_vars>>
    /\ UNCHANGED outside_server

\* server.py:167-169
StoreTime(t) ==
    /\ pc[t] = "store_time"
    /\ last_fetch_time' = [last_fetch_time EXCEPT ![cache_key(technology[t])] = now]
    /\ fetch_rid' = [fetch_rid EXCEPT ![cache_key(technology[t])] = rid[t]]
    /\ pc' = [pc EXCEPT ![t] = "done"]
    /\ UNCHANGED <<data_cache, now, upstream, technology, force_refresh,
                   github_issues, stackoverflow_questions, combined_len, result,
                   path, rid, nfetches, collector_calls, cold_start, peers>>
    /\ UNCHANGED outside_server

\* server.py:214-219: the handler answers; the call's locals die with its frame
\* and the thread serves the next request.
Return(t) ==
    /\ pc[t] = "done"
    /\ pc' = [pc EXCEPT ![t] = "idle"]
    /\ technology' = [technology EXCEPT ![t] = NoName]
    /\ force_refresh' = [force_refresh EXCEPT ![t] = FALSE]
    /\ github_issues' = [github_issues EXCEPT ![t] = 0]
    /\ stackoverflow_questions' = [stackoverflow_questions EXCEPT ![t] = 0]
    /\ combined_len' = [combined_len EXCEPT ![t] = -1]
    /\ result' = [result EXCEPT ![t] = NoResult]
    /\ path' = [path EXCEPT ![t] = "none"]
    /\ rid' = [rid EXCEPT ![t] = 0]
    /\ collector_calls' = [collector_calls EXCEPT ![t] = 0]
    /\ cold_start' = [cold_start EXCEPT ![t] = FALSE]
    /\ peers' = [peers EXCEPT ![t] = {}]
    /\ UNCHANGED <<data_cache, last_fetch_time, now, upstream, nfetches, fetch_rid>>
    /\ UNCHANGED outside_server

\* The wall clock advances.
Tick ==
    /\ now < MaxTime
    /\ now' = now + 1
    /\ UNCHANGED <<cache_vars, upstream, thread_vars, hist_vars>>
    /\ UNCHANGED outside_server

Init ==
    /\ ServerInit
    /\ AnalyzerIdle
    /\ BatchIdle
    /\ PredictorIdle
    /\ DetectorIdle
    /\ AggregatorIdle

Next ==
    \/ \E t \in Threads, tech \in Technologies, force \in BOOLEAN : Call(t, tech, force)
    \/ \E t \in Threads : ReturnCached(t)
    \/ \E t \in Threads : Collect(t)
    \/ \E t \in Threads : Process(t)
    \/ \E t \in Threads : StoreReport(t)
    \/ \E t \in Threads : StoreTime(t)
    \/ \E t \in Threads : Return(t)
    \/ Tick

Spec == Init /\ [][Next]_vars

----------------------------------------------------------------------------
(* Calls of DevSentimentAnalyzer.analyze *)

ServerIdle ==
    /\ ServerInit
    /\ upstream = [issues |-> 0, questions |-> 0, days |-> 0, fits |-> FALSE]

AnalyzerInit ==
    /\ ServerIdle
    /\ BatchIdle
    /\ PredictorIdle
    /\ DetectorIdle
    /\ AggregatorIdle
    /\ input \in Texts
    /\ backend = NoBackend
    /\ analysis = NoOutcome
    /\ apc = "ready"

\* sentiment_analyzer.py:124-210: one call of analyze, the pipeline behaving as b.
Analyze ==
    /\ apc = "ready"
    /\ \E b \in Backends :
          /\ backend' = b
          /\ analysis' = analyze(input, b)
    /\ apc' = "done"
    /\ UNCHANGED <<input, server_vars, batch_vars, predictor_vars, detector_vars,
                   aggregator_vars>>

AnalyzerNext == Analyze

AnalyzerSpec == AnalyzerInit /\ [][AnalyzerNext]_vars

----------------------------------------------------------------------------
(* Calls of batch_analyze and aggregate_sentiment *)

BatchInit ==
    /\ ServerIdle
    /\ AnalyzerIdle
    /\ PredictorIdle
    /\ DetectorIdle
    /\ AggregatorIdle
    /\ in_texts \in SeqsUpTo(BatchTexts, MaxBatch)
    /\ in_pipeline \in [1..Len(in_texts) -> BatchBackends]
    /\ in_batch_size \in 1..MaxBatchSize
    /\ sentiment_results = <<>>
    /\ sentiment_summary = NoSummary
    /\ bpc = "ready"

\* server.py:103  sentiment_results = sentiment_analyzer.batch_analyze(texts)
BatchAnalyze ==
    /\ bpc = "ready"
    /\ sentiment_results' = batch_analyze(in_texts, in_pipeline, in_batch_size)
    /\ bpc' = "analyzed"
    /\ UNCHANGED <<in_texts, in_batch_size, in_pipeline, sentiment_summary,
                   server_vars, analyzer_vars, predictor_vars, detector_vars,
                   aggregator_vars>>

\* server.py:110  sentiment_summary = sentiment_analyzer.aggregate_sentiment(...)
Aggregate ==
    /\ bpc = "analyzed"
    /\ sentiment_summary' = aggregate_sentiment(sentiment_results)
    /\ bpc' = "aggregated"
    /\ UNCHANGED <<in_texts, in_batch_size, in_pipeline, sentiment_results,
                   server_vars, analyzer_vars, predictor_vars, detector_vars,
                   aggregator_vars>>

BatchNext == BatchAnalyze \/ Aggregate

BatchSpec == BatchInit /\ [][BatchNext]_vars

----------------------------------------------------------------------------
(* Calls on one TrendPredictor *)

PredictorInit ==
    /\ ServerIdle
    /\ AnalyzerIdle
    /\ BatchIdle
    /\ PredictorIdle
    /\ DetectorIdle
    /\ AggregatorIdle

outside_predictor ==
    <<server_vars, analyzer_vars, batch_vars, detector_vars, aggregator_vars>>

\* trend_predictor.py:32-55: a call of prepare_data.  It reads and writes no
\* attribute of the predictor, so it is taken on the fresh predictor only.
Prepare ==
    /\ fc_call = NoCall
    /\ \E historical_data \in ShortSeries :
       \E keep \in SortOutcomes(historical_data) :
          fc_call' = [NoCall EXCEPT
                         !.op = "prepare",
                         !.historical_data = historical_data,
                         !.before = [model |-> model, trained_on |-> trained_on],
                         !.returned = prepare_data(historical_data, keep)]
    /\ UNCHANGED <<model, trained_on, fc_calls, fc_trained, outside_predictor>>

\* trend_predictor.py:57-96: a call of train
Train ==
    /\ fc_calls < MaxCalls
    /\ \E historical_data \in TrainSeries, tech \in TrainNames, fit_ok \in BOOLEAN :
       \E keep \in SortOutcomes(historical_data) :
          LET out == train(model, trained_on, historical_data, tech, keep, fit_ok)
          IN /\ model' = out.model
             /\ trained_on' = out.trained_on
             /\ fc_trained' = (fc_trained \/ out.returned)
             /\ fc_call' = [NoCall EXCEPT
                                !.op = "train",
                                !.historical_data = historical_data,
                                !.technology = tech,
                                !.before = [model |-> model, trained_on |-> trained_on],
                                !.returned = out.returned]
    /\ fc_calls' = fc_calls + 1
    /\ UNCHANGED outside_predictor

\* trend_predictor.py:98-146: a call of predict
Predict ==
    /\ fc_calls < MaxCalls
    /\ \E days_ahead \in 1..MaxDaysAhead :
       \E forecast \in [1..days_ahead -> ForecastRows] :
          LET out == predict(model, trained_on, days_ahead, forecast)
          IN fc_call' = [NoCall EXCEPT
                            !.op = "predict",
                            !.days_ahead = days_ahead,
                            !.before = [model |-> model, trained_on |-> trained_on],
                            !.raised = out.raised,
                            !.returned = out.returned]
    /\ fc_calls' = fc_calls + 1
    /\ UNCHANGED <<model, trained_on, fc_trained, outside_predictor>>

\* trend_predictor.py:148-182: a call of analyze_trend.  Like prepare_data it
\* reads and writes no attribute of the predictor.
AnalyzeTrend ==
    /\ fc_call = NoCall
    /\ \E historical_data \in TrendSeries :
       \E keep \in SortOutcomes(historical_data) :
          fc_call' = [NoCall EXCEPT
                         !.op = "analyze_trend",
                         !.historical_data = historical_data,
                         !.before = [model |-> model, trained_on |-> trained_on],
                         !.df = prepare_data(historical_data, keep),
                         !.returned = analyze_trend(historical_data, keep)]
    /\ UNCHANGED <<model, trained_on, fc_calls, fc_trained, outside_predictor>>

PredictorNext == Prepare \/ Train \/ Predict \/ AnalyzeTrend

PredictorSpec == PredictorInit /\ [][PredictorNext]_vars

----------------------------------------------------------------------------
(* AnomalyDetector: the frame *)

\* In a record of historical_data: the field is absent, or its value cannot be
\* parsed (as a date by pd.to_datetime, as a number by pd.to_numeric).
Missing == -1
Unparseable == -2

\* pd.to_datetime of a missing date, and the mean of no values
NaT == -1
NaN == Ratio(0, 0)

\* anomaly_detector.py:80  row["ds"].strftime("%Y-%m-%d"): the day of a timestamp
strftime(ds) == ds \div 24

RECURSIVE Perms(_)
Perms(S) ==
    IF S = {} THEN { <<>> }
    ELSE UNION { { <<x>> \o q : q \in Perms(S \ {x}) } : x \in S }

\* anomaly_detector.py:56: sort_values("ds") is not stable and puts NaT last:
\* rows in ascending ds, rows of one ds in any order, then the rows without a
\* date in any order.
RECURSIVE GroupOrders(_, _, _)
GroupOrders(historical_data, ds_sorted, k) ==
    IF k = 0 THEN { <<>> }
    ELSE { o \o q :
             o \in GroupOrders(historical_data, ds_sorted, k - 1),
             q \in Perms(RowsWithDs(historical_data, ds_sorted[k])) }

RowOrders(historical_data) ==
    LET rows == 1..Len(historical_data)
        ds_sorted ==
            SortedDs({ to_datetime(historical_data[i].date) :
                         i \in { j \in rows : historical_data[j].date >= 0 } })
    IN { o \o q :
           o \in GroupOrders(historical_data, ds_sorted, Len(ds_sorted)),
           q \in Perms({ i \in rows : historical_data[i].date = Missing }) }

\* anomaly_detector.py:33-58  _to_dataframe, the sort leaving the rows in order
to_dataframe(historical_data, order) ==
    LET rows == 1..Len(historical_data)
        ValueError == [raised |-> TRUE, df |-> <<>>]
        sorted ==
            [k \in 1..Len(order) |->
                [ds |-> IF historical_data[order[k]].date = Missing THEN NaT
                        ELSE to_datetime(historical_data[order[k]].date),
                 y |-> historical_data[order[k]].sentiment_score]]
    IN IF historical_data = <<>> THEN [raised |-> FALSE, df |-> <<>>]
       ELSE IF \A i \in rows : historical_data[i].date = Missing THEN ValueError
       ELSE IF \E i \in rows : historical_data[i].date = Unparseable THEN ValueError
       ELSE IF \A i \in rows : historical_data[i].sentiment_score = Missing
       THEN ValueError
       ELSE [raised |-> FALSE,
             df |-> SelectSeq(sorted, LAMBDA r : r.y >= 0)]

Raised == [raised |-> TRUE, returned |-> <<>>]
Returned(list) == [raised |-> FALSE, returned |-> list]

----------------------------------------------------------------------------
(* AnomalyDetector: detect_statistical_anomalies *)

default_z_thresh == Ratio(5, 2)

\* anomaly_detector.py:70-75: with n rows, sum S and sum of squares Q, the mean is
\* S / n and the population variance (n Q - S S) / n^2, so that
\* z^2 = (n y - S)^2 / (n Q - S S) and the sign of z is that of n y - S.
ZNum(df, i) == Len(df) * df[i].y - SumY(df, 1..Len(df))
ZVar(df) ==
    Len(df) * SumYSquared(df, 1..Len(df))
        - SumY(df, 1..Len(df)) * SumY(df, 1..Len(df))

\* anomaly_detector.py:76 with > in place of >=
ZFlagged_Strict(df, i, z_thresh) ==
    ZNum(df, i) * ZNum(df, i) * z_thresh.den * z_thresh.den
        > z_thresh.num * z_thresh.num * ZVar(df)

\* anomaly_detector.py:76  np.abs(df["z"]) >= z_thresh
ZFlagged(df, i, z_thresh) ==
    ZNum(df, i) * ZNum(df, i) * z_thresh.den * z_thresh.den
        >= z_thresh.num * z_thresh.num * ZVar(df)

\* anomaly_detector.py:60-86
detect_statistical_anomalies(historical_data, order, z_thresh) ==
    LET frame == to_dataframe(historical_data, order)
        df == frame.df
        n == Len(df)
        with_z ==
            [i \in 1..n |->
                [ds |-> df[i].ds, y |-> df[i].y,
                 z_squared |-> Ratio(ZNum(df, i) * ZNum(df, i), ZVar(df)),
                 z_positive |-> ZNum(df, i) > 0,
                 flagged |-> ZFlagged(df, i, z_thresh)]]
        anomalies == SelectSeq(with_z, LAMBDA r : r.flagged)
    IN IF frame.raised THEN Raised
       ELSE IF n = 0 THEN Returned(<<>>)
       ELSE IF n <= 1 \/ ZVar(df) = 0 THEN Returned(<<>>)
       ELSE IF \E k \in 1..Len(anomalies) : anomalies[k].ds = NaT THEN Raised
       ELSE Returned([k \in 1..Len(anomalies) |->
                [date |-> strftime(anomalies[k].ds),
                 value |-> anomalies[k].y,
                 z_score_squared |-> anomalies[k].z_squared,
                 type |-> IF anomalies[k].z_positive THEN "spike" ELSE "drop"]])

----------------------------------------------------------------------------
(* AnomalyDetector: the isolation forest *)

min_forest_rows == 5

\* anomaly_detector.py:88-115.  The constructor call of lines 98-103 passes
\* behaviour=None when the installed IsolationForest has no such parameter,
\* which raises TypeError before self.model is assigned and outside the try
\* block of lines 105-113.
fit_isolation_forest(self_model, historical_data, order, accepts) ==
    LET frame == to_dataframe(historical_data, order)
        df == frame.df
    IN IF frame.raised
       THEN [raised |-> TRUE, returned |-> FALSE, model |-> self_model]
       ELSE IF Len(df) < min_forest_rows
       THEN [raised |-> FALSE, returned |-> FALSE, model |-> NoForest]
       ELSE IF ~accepts
       THEN [raised |-> TRUE, returned |-> FALSE, model |-> self_model]
       ELSE [raised |-> FALSE, returned |-> TRUE,
             model |-> [kind |-> "IsolationForest",
                        fitted_on |-> [i \in 1..Len(df) |-> df[i].y]]]

\* anomaly_detector.py:117-151; preds is the set of rows for which
\* self.model.predict gives -1.
detect_iforest_anomalies(self_model, historical_data, order, accepts, preds) ==
    LET frame == to_dataframe(historical_data, order)
        df == frame.df
        n == Len(df)
        fit == IF self_model = NoForest
               THEN fit_isolation_forest(self_model, historical_data, order, accepts)
               ELSE [raised |-> FALSE, returned |-> TRUE, model |-> self_model]
        flagged == [i \in 1..n |-> [ds |-> df[i].ds, y |-> df[i].y, anomaly |-> i \in preds]]
        anomalies == SelectSeq(flagged, LAMBDA r : r.anomaly)
        Out(r, list, m, s) ==
            [raised |-> r, returned |-> list, model |-> m, scored |-> s]
    IN IF frame.raised THEN Out(TRUE, <<>>, self_model, FALSE)
       ELSE IF n = 0 THEN Out(FALSE, <<>>, self_model, FALSE)
       ELSE IF fit.raised THEN Out(TRUE, <<>>, fit.model, FALSE)
       ELSE IF ~fit.returned THEN Out(FALSE, <<>>, fit.model, FALSE)
       ELSE IF \E k \in 1..Len(anomalies) : anomalies[k].ds = NaT
       THEN Out(TRUE, <<>>, fit.model, TRUE)
       ELSE Out(FALSE,
                [k \in 1..Len(anomalies) |->
                    [date |-> strftime(anomalies[k].ds),
                     value |-> anomalies[k].y,
                     type |-> IF n * anomalies[k].y > SumY(df, 1..n)
                              THEN "spike" ELSE "drop"]],
                fit.model, TRUE)

----------------------------------------------------------------------------
(* AnomalyDetector: detect_window_anomalies *)

default_window == 7

\* anomaly_detector.py:153 with a threshold of 50%
default_threshold_Half == Ratio(1, 2)

default_threshold == Ratio(1, 4)

\* Series.rolling(window=w, min_periods=1).mean(): at row i the mean of the rows
\* i-w+1..i that exist.
Rolling(df, w) ==
    [i \in 1..Len(df) |->
        LET lo == IF i - w + 1 >= 1 THEN i - w + 1 ELSE 1
        IN Ratio(SumY(df, lo..i), i - lo + 1)]

\* anomaly_detector.py:164 without the shift
Shift_None(column, k) == column

\* Series.shift(k): row i takes the value of row i-k, the first k rows NaN.
Shift(column, k) ==
    [i \in 1..Len(column) |-> IF i <= k THEN NaN ELSE column[i - k]]

Abs(x) == IF x < 0 THEN -x ELSE x

\* anomaly_detector.py:172  (rolling_mean - baseline) / baseline
RelativeChange(rolling_mean, baseline) ==
    Ratio(rolling_mean.num * baseline.den - baseline.num * rolling_mean.den,
          rolling_mean.den * baseline.num)

\* anomaly_detector.py:153-181
detect_window_anomalies(historical_data, order, window, threshold) ==
    LET frame == to_dataframe(historical_data, order)
        df == frame.df
        n == Len(df)
        rolling_mean == Rolling(df, window)
        baseline == Shift(Rolling(df, window * 2), window)
        rows ==
            [i \in 1..n |->
                [ds |-> df[i].ds, rolling_mean |-> rolling_mean[i],
                 baseline |-> baseline[i],
                 change |-> RelativeChange(rolling_mean[i], baseline[i])]]
        kept == SelectSeq(rows, LAMBDA r : r.baseline # NaN)
        anomalies ==
            SelectSeq(kept,
                LAMBDA r : /\ r.baseline.num # 0
                           /\ Abs(r.change.num) * threshold.den
                                 >= threshold.num * Abs(r.change.den))
        Out(r, list) ==
            [raised |-> r, returned |-> list,
             rolling_mean |-> IF r \/ n < window * 2 THEN <<>> ELSE rolling_mean,
             baseline |-> IF r \/ n < window * 2 THEN <<>> ELSE baseline]
    IN IF frame.raised THEN Out(TRUE, <<>>)
       ELSE IF n = 0 \/ n < window * 2 THEN Out(FALSE, <<>>)
       ELSE IF \E k \in 1..Len(anomalies) : anomalies[k].ds = NaT
       THEN Out(TRUE, <<>>)
       ELSE Out(FALSE,
                [k \in 1..Len(anomalies) |->
                    [date |-> strftime(anomalies[k].ds),
                     rolling_mean |-> anomalies[k].rolling_mean,
                     baseline |-> anomalies[k].baseline,
                     relative_change |-> anomalies[k].change,
                     type |-> IF anomalies[k].change.num > 0
                              THEN "spike" ELSE "drop"]])

----------------------------------------------------------------------------
(* Calls on one AnomalyDetector *)

\* Records with the date or the score absent or unparseable, in lists of up to
\* MaxMalformed records.
MalformedRecords ==
    [date : { 1, 2, Missing, Unparseable },
     sentiment_score : { 10, 50, Missing, Unparseable }]
Malformed == SeqsUpTo(MalformedRecords, MaxMalformed)

\* Two-valued daily series of up to MaxStatPoints points.
StatScores == { <<50, 50>>, <<50, 70>>, <<70, 50>>, <<0, 5>>, <<0, 0>> }
StatSeries ==
    { StepSeries(n, a, v[1], v[2]) :
        n \in 0..MaxStatPoints, a \in 0..MaxStatPoints, v \in StatScores }
ZThresholds == { default_z_thresh, Ratio(2, 1), Ratio(1, 2) }

\* Daily series from day 1 that hold one score up to the day before StepDay and
\* another from StepDay on.
StepDay == 2 * default_window
WindowScores == { 0, 10, 14, 30, 50, 70 }
WindowSeries ==
    { StepSeries(n, StepDay - 1, lo, hi) :
        n \in (StepDay - 2)..MaxSeriesDays, lo \in WindowScores, hi \in WindowScores }
Windows == { 2, default_window }

\* Series for the isolation forest: below and at the minimum length, flat or
\* with one high last point; the empty list; a record without a date.
ForestSeries ==
    { StepSeries(n, n - 1, 50, hi) :
        n \in { 1, min_forest_rows - 1, min_forest_rows }, hi \in { 50, 90 } }
    \cup { <<>>, <<[date |-> Missing, sentiment_score |-> 50]>> }

\* The sets of rows that IsolationForest.predict may mark -1: sklearn decides,
\* nothing in this repository does.
PredSets(n) == { {} } \cup { { i } : i \in 1..n } \cup { 1..n }

DetectorInit ==
    /\ ServerIdle
    /\ AnalyzerIdle
    /\ BatchIdle
    /\ PredictorIdle
    /\ AggregatorIdle
    /\ forest = NoForest
    /\ has_behaviour \in BOOLEAN
    /\ det_call = NoDetCall
    /\ det_calls = 0

outside_detector ==
    <<server_vars, analyzer_vars, batch_vars, predictor_vars, aggregator_vars>>

\* anomaly_detector.py:60-86: a call of detect_statistical_anomalies.  It reads
\* and writes no attribute of the detector, so it is taken on the fresh one only.
DetectStatistical ==
    /\ det_call = NoDetCall
    /\ \E historical_data \in StatSeries \cup Malformed, z_thresh \in ZThresholds :
       \E order \in RowOrders(historical_data) :
          LET out == detect_statistical_anomalies(historical_data, order, z_thresh)
          IN det_call' = [NoDetCall EXCEPT
                             !.op = "detect_statistical_anomalies",
                             !.historical_data = historical_data,
                             !.df = to_dataframe(historical_data, order).df,
                             !.threshold = z_thresh,
                             !.raised = out.raised,
                             !.returned = out.returned]
    /\ UNCHANGED <<forest, has_behaviour, det_calls, outside_detector>>

\* anomaly_detector.py:153-181: a call of detect_window_anomalies, likewise.
DetectWindow ==
    /\ det_call = NoDetCall
    /\ \E historical_data \in WindowSeries \cup StatSeries \cup Malformed,
          window \in Windows :
       \E order \in RowOrders(historical_data) :
          LET out == detect_window_anomalies(historical_data, order, window,
                                             default_threshold)
          IN det_call' = [NoDetCall EXCEPT
                             !.op = "detect_window_anomalies",
                             !.historical_data = historical_data,
                             !.df = to_dataframe(historical_data, order).df,
                             !.window = window,
                             !.threshold = default_threshold,
                             !.rolling_mean = out.rolling_mean,
                             !.baseline = out.baseline,
                             !.raised = out.raised,
                             !.returned = out.returned]
    /\ UNCHANGED <<forest, has_behaviour, det_calls, outside_detector>>

\* The calls that read or write self.model follow one another.
ForestCalls == { "none", "fit_isolation_forest", "detect_iforest_anomalies" }

\* anomaly_detector.py:88-115: a call of fit_isolation_forest
FitForest ==
    /\ det_calls < MaxDetCalls
    /\ det_call.op \in ForestCalls
    /\ \E historical_data \in ForestSeries :
       \E order \in RowOrders(historical_data) :
          LET out == fit_isolation_forest(forest, historical_data, order,
                                          has_behaviour)
          IN /\ forest' = out.model
             /\ det_call' = [NoDetCall EXCEPT
                                !.op = "fit_isolation_forest",
                                !.historical_data = historical_data,
                                !.before = forest,
                                !.df = to_dataframe(historical_data, order).df,
                                !.raised = out.raised,
                                !.ok = out.returned]
    /\ det_calls' = det_calls + 1
    /\ UNCHANGED <<has_behaviour, outside_detector>>

\* anomaly_detector.py:117-151: a call of detect_iforest_anomalies
DetectForest ==
    /\ det_calls < MaxDetCalls
    /\ det_call.op \in ForestCalls
    /\ \E historical_data \in ForestSeries :
       \E order \in RowOrders(historical_data) :
       \E preds \in PredSets(Len(to_dataframe(historical_data, order).df)) :
          LET out == detect_iforest_anomalies(forest, historical_data, order,
                                              has_behaviour, preds)
          IN /\ forest' = out.model
             /\ det_call' = [NoDetCall EXCEPT
                                !.op = "detect_iforest_anomalies",
                                !.historical_data = historical_data,
                                !.before = forest,
                                !.df = to_dataframe(historical_data, order).df,
                                !.preds = preds,
                                !.scored = out.scored,
                                !.raised = out.raised,
                                !.returned = out.returned]
    /\ det_calls' = det_calls + 1
    /\ UNCHANGED <<has_behaviour, outside_detector>>

DetectorNext == DetectStatistical \/ DetectWindow \/ FitForest \/ DetectForest

DetectorSpec == DetectorInit /\ [][DetectorNext]_vars

----------------------------------------------------------------------------
(* Daily aggregation of classified records *)

\* data_processor.py:168-175  label_to_score
label_to_score(label) ==
    CASE label = "SATISFIED" -> 90
      [] label = "POSITIVE" -> 75
      [] label = "NEUTRAL" -> 50
      [] label = "NEGATIVE" -> 25
      [] label = "FRUSTRATED" -> 10

\* The order of Python's string comparison on the values used here.
LabelOrder == <<"FRUSTRATED", "NEGATIVE", "NEUTRAL", "POSITIVE", "SATISFIED">>
TechOrder == <<"react", "vue">>
Rank(order, x) == CHOOSE i \in 1..Len(order) : order[i] = x

\* The group keys of a groupby on (technology, date) come out sorted.
GroupKeys(records) ==
    { <<records[i].technology, records[i].date>> : i \in 1..Len(records) }
KeyBefore(a, b) ==
    \/ Rank(TechOrder, a[1]) < Rank(TechOrder, b[1])
    \/ a[1] = b[1] /\ a[2] <= b[2]
RECURSIVE SortedKeys(_)
SortedKeys(K) ==
    IF K = {} THEN <<>>
    ELSE LET m == CHOOSE x \in K : \A y \in K : KeyBefore(x, y) IN
         <<m>> \o SortedKeys(K \ {m})

GroupRows(records, key) ==
    { i \in 1..Len(records) :
        records[i].technology = key[1] /\ records[i].date = key[2] }

RECURSIVE SumNumeric(_, _)
SumNumeric(records, rows) ==
    IF rows = {} THEN 0
    ELSE LET i == CHOOSE j \in rows : TRUE IN
         label_to_score(records[i].label)
            + SumNumeric(records, rows \ {i})

RECURSIVE SumScore(_, _)
SumScore(records, rows) ==
    IF rows = {} THEN 0
    ELSE LET i == CHOOSE j \in rows : TRUE IN
         records[i].score + SumScore(records, rows \ {i})

\* data_processor.py:181  x.mode()[0]: of the most frequent labels the first in
\* sorted order.
Mode(records, rows) ==
    LET Count(l) == Cardinality({ i \in rows : records[i].label = l })
        modes == { l \in { records[i].label : i \in rows } :
                     \A i \in rows : Count(records[i].label) <= Count(l) }
    IN CHOOSE l \in modes :
          \A o \in modes : Rank(LabelOrder, l) <= Rank(LabelOrder, o)

\* data_processor.py:148-187.  The frame of no records is pd.DataFrame(), which
\* has no 'technology' column to group by.
aggregate_daily_metrics(records) ==
    LET keys == SortedKeys(GroupKeys(records)) IN
    IF records = <<>> THEN [raised |-> TRUE, returned |-> <<>>]
    ELSE [raised |-> FALSE,
          returned |->
            [k \in 1..Len(keys) |->
                LET rows == GroupRows(records, keys[k]) IN
                [technology |-> keys[k][1],
                 date |-> keys[k][2],
                 sentiment_score |->
                     Ratio(SumNumeric(records, rows), Cardinality(rows)),
                 record_count |-> Cardinality(rows),
                 dominant_sentiment |-> Mode(records, rows)]]]

\* server.py:105-120: the daily series of a report.  The score column holds
\* r['score'] * 100 and the frame is grouped by date alone.
daily_sentiment(records) ==
    LET dates == SortedDs({ records[i].date : i \in 1..Len(records) }) IN
    [raised |-> FALSE,
     returned |->
        [k \in 1..Len(dates) |->
            LET rows == { i \in 1..Len(records) : records[i].date = dates[k] } IN
            [date |-> dates[k],
             sentiment_score |-> Ratio(SumScore(records, rows), Cardinality(rows))]]]

\* Classified records: technology, date, label and score in hundredths.
Classified ==
    { [label |-> "SATISFIED", score |-> 95], [label |-> "FRUSTRATED", score |-> 90],
      [label |-> "NEUTRAL", score |-> 50] }
ClassifiedRecords ==
    { [technology |-> t, date |-> d, label |-> c.label, score |-> c.score] :
        t \in { "react", "vue" }, d \in { 1, 2 }, c \in Classified }
RecordLists == SeqsUpTo(ClassifiedRecords, MaxRecords)

AggregatorInit ==
    /\ ServerIdle
    /\ AnalyzerIdle
    /\ BatchIdle
    /\ PredictorIdle
    /\ DetectorIdle
    /\ agg_call = NoAggCall

outside_aggregator ==
    <<server_vars, analyzer_vars, batch_vars, predictor_vars, detector_vars>>

\* data_processor.py:148-187: a call of aggregate_daily_metrics
AggregateDaily ==
    /\ agg_call = NoAggCall
    /\ \E records \in RecordLists :
          LET out == aggregate_daily_metrics(records)
          IN agg_call' = [op |-> "aggregate_daily_metrics", records |-> records,
                          raised |-> out.raised, returned |-> out.returned]
    /\ UNCHANGED outside_aggregator

\* server.py:105-120: the aggregation inside a recomputation, whose frame is
\* not empty (server.py:95) and holds the records of the requested technology.
ServerDaily ==
    /\ agg_call = NoAggCall
    /\ \E records \in RecordLists \ { <<>> } :
          /\ \A i \in 1..Len(records) : records[i].technology = records[1].technology
          /\ LET out == daily_sentiment(records)
             IN agg_call' = [op |-> "daily_sentiment", records |-> records,
                             raised |-> out.raised, returned |-> out.returned]
    /\ UNCHANGED outside_aggregator

AggregatorNext == AggregateDaily \/ ServerDaily

AggregatorSpec == AggregatorInit /\ [][AggregatorNext]_vars

----------------------------------------------------------------------------
(* The report cache: statements checked under Spec *)

Key(t) == Lower(technology[t])

\* An entry for k exists and less than the TTL has passed since its fetch time.
EntryWithinTTL(k) ==
    /\ data_cache[k] # NoResult
    /\ last_fetch_time[k] # NoTime
    /\ (now - last_fetch_time[k]) * HoursPerTick < cache_duration

\* Thread t takes the step that begins a call.
Begins(t) == pc[t] = "idle" /\ pc'[t] # "idle"

\* C1: for every cache key at most one recomputation of that key's report is in
\* flight at any moment: no two threads are between the failed cache check and
\* the end of their recomputation of the same key.
C1_SingleFlight ==
    \A t1, t2 \in Threads :
        (t1 # t2 /\ Recomputing(t1) /\ Recomputing(t2)) => Key(t1) # Key(t2)

\* C2: simultaneous non-forced calls for one technology on a cold cache trigger
\* exactly one recomputation and all receive the same Report: two calls that both
\* began with no entry for the key, the second while the first was being served,
\* do not both recompute and end with equal results.
C2_ColdCacheOneRecomputation ==
    \A t1, t2 \in Threads :
        ( /\ t1 # t2
          /\ pc[t1] = "done" /\ pc[t2] = "done"
          /\ Key(t1) = Key(t2)
          /\ cold_start[t1] /\ cold_start[t2]
          /\ t1 \in peers[t2] )
        => /\ ~(path[t1] = "fetch" /\ path[t2] = "fetch")
           /\ result[t1] = result[t2]

\* C3, the step of the cache check: a non-forced call that begins while an entry
\* for its key exists and is within the TTL takes the cached branch and starts no
\* recomputation.
C3_CheckStep(t) ==
    (Begins(t) /\ ~force_refresh'[t] /\ EntryWithinTTL(Lower(technology'[t])))
    => /\ pc'[t] = "cached"
       /\ rid'[t] = 0
       /\ nfetches' = nfetches

\* C3, the step that returns: the call returns the Report the cache holds,
\* leaves both dicts as they are and has made no collector call.
C3_ReturnStep(t) ==
    (pc[t] = "cached" /\ pc'[t] # "cached")
    => /\ pc'[t] = "done"
       /\ result'[t] = data_cache[Key(t)]
       /\ result'[t].kind = "report"
       /\ collector_calls'[t] = 0
       /\ UNCHANGED <<data_cache, last_fetch_time, nfetches>>

\* C3, two such calls: Reports that two cache hits hold and that come from the
\* same recomputation are identical.
C3_Identical ==
    \A t1, t2 \in Threads :
        ( /\ pc[t1] = "done" /\ pc[t2] = "done"
          /\ path[t1] = "hit" /\ path[t2] = "hit"
          /\ Key(t1) = Key(t2)
          /\ result[t1].rid = result[t2].rid )
        => result[t1] = result[t2]

\* C3: a non-forced get_report that finds an entry for its key less than the TTL
\* (6 hours) old returns the cached Report unchanged, recomputes nothing and
\* calls no collector; two such calls within the TTL return identical Reports.
C3_CacheHit ==
    [][ /\ \A t \in Threads : C3_CheckStep(t) /\ C3_ReturnStep(t)
        /\ C3_Identical' ]_vars

\* C3 happens: two calls answered from one entry, after time has passed.
C3_Witness ==
    \E t1, t2 \in Threads :
        /\ t1 # t2
        /\ pc[t1] = "done" /\ pc[t2] = "done"
        /\ path[t1] = "hit" /\ path[t2] = "hit"
        /\ Key(t1) = Key(t2)
        /\ result[t1] = result[t2]
        /\ result[t1].kind = "report"
        /\ now > last_fetch_time[Key(t1)]

\* C4, the step of the cache check: a forced call, or one that finds no entry
\* within the TTL, starts a recomputation.
C4_CheckStep(t) ==
    (Begins(t) /\ (force_refresh'[t] \/ ~EntryWithinTTL(Lower(technology'[t]))))
    => /\ pc'[t] = "collect"
       /\ path'[t] = "fetch"
       /\ nfetches' = nfetches + 1
       /\ rid'[t] = nfetches + 1

\* C4, success: the Report a recomputation assembled goes to the store steps, which
\* put it and then the current time under the call's key.
C4_StoreSteps(t) ==
    /\ (pc[t] = "process" /\ pc'[t] # "process" /\ result'[t].kind = "report")
       => (pc'[t] = "store_report" /\ result'[t].rid = rid[t]
           /\ result'[t].last_updated = now)
    /\ (pc[t] = "store_report" /\ pc'[t] # "store_report")
       => (pc'[t] = "store_time" /\ data_cache'[Key(t)] = result[t])
    /\ (pc[t] = "store_time" /\ pc'[t] # "store_time")
       => (pc'[t] = "done" /\ last_fetch_time'[Key(t)] = now)

\* C4, lazy expiry: the dicts change only in the store steps of some call; the
\* passing of time changes neither.
C4_Lazy ==
    /\ data_cache' # data_cache
       => \E t \in Threads : pc[t] = "store_report" /\ pc'[t] = "store_time"
    /\ last_fetch_time' # last_fetch_time
       => \E t \in Threads : pc[t] = "store_time" /\ pc'[t] = "done"
    /\ now' # now => UNCHANGED <<data_cache, last_fetch_time>>

\* C4 as stated: every recomputation that gets past the collection step has
\* called a collector.
C4_CollectorsAlways(t) ==
    (pc[t] = "collect" /\ pc'[t] # "collect") => collector_calls'[t] >= 1

\* C4 as amended: it has called a collector when the technology is in a
\* collector's table.
C4_CollectorsWhenKnown(t) ==
    (pc[t] = "collect" /\ pc'[t] # "collect"
     /\ (Key(t) \in TECH_REPOS \/ Key(t) \in TECH_TAGS))
    => collector_calls'[t] >= 1

C5_AlwaysReport ==
    \A t \in Threads : pc[t] = "done" => result[t].kind = "report"

\* C6: a recomputation that obtains zero Records returns a well-formed Report
\* (no data points, the insufficient-data forecast marker), not an error result.
C6_ZeroRecordsReport ==
    \A t \in Threads :
        (pc[t] = "done" /\ combined_len[t] = 0)
        => /\ result[t].kind = "report"
           /\ result[t].data_points = 0
           /\ result[t].predictions = InsufficientData

\* C7: in every reachable state a key has a report if and only if it has a fetch
\* time, and the two were stored by the same recomputation.
C7_EntryWholesale ==
    \A k \in DictKeys :
        /\ data_cache[k] = NoResult <=> last_fetch_time[k] = NoTime
        /\ data_cache[k] # NoResult => data_cache[k].rid = fetch_rid[k]

\* An entry stored under some key by a completed recomputation for a name that
\* differs from tech only in letter case, less than the TTL ago.
CaseTwinWithinTTL(tech) ==
    \E k \in DictKeys :
        /\ data_cache[k] # NoResult
        /\ data_cache[k].technology # tech
        /\ Lower(data_cache[k].technology) = Lower(tech)
        /\ fetch_rid[k] = data_cache[k].rid
        /\ (now - last_fetch_time[k]) * HoursPerTick < cache_duration

\* C8: the cache key is the case-folded technology name: a non-forced call for a
\* name, made within the TTL of a successful get_report for a name that differs
\* from it only in letter case, is a cache hit on that entry and starts no
\* recomputation.
C8_CaseFoldedKey ==
    [][ \A t \in Threads :
          /\ (Begins(t) /\ ~force_refresh'[t] /\ CaseTwinWithinTTL(technology'[t]))
             => (pc'[t] = "cached" /\ nfetches' = nfetches)
          /\ (pc[t] = "cached" /\ pc'[t] = "done")
             => /\ result'[t].kind = "report"
                /\ Lower(result'[t].technology) = Lower(technology[t]) ]_vars

\* C8 happens: a call is answered with the Report computed for the other spelling.
C8_Witness ==
    \E t \in Threads :
        /\ pc[t] = "done"
        /\ path[t] = "hit"
        /\ result[t].kind = "report"
        /\ result[t].technology # technology[t]
        /\ Lower(result[t].technology) = Lower(technology[t])

----------------------------------------------------------------------------
(* The sentiment classifier: statements checked under AnalyzerSpec *)

Labels == { "POSITIVE", "NEGATIVE", "NEUTRAL", "FRUSTRATED", "SATISFIED" }

\* The pipeline is invoked on this text: neither guard returns before it.
BackendInvoked(s) == ~TooShort(s) /\ preprocess_text(s) # <<>>

\* C9: for every text and every behaviour of the ML backend (any class with a
\* score in [0,1], or an exception), analyze does not raise and returns a label
\* of the fixed enum and a score in [0,1].
C9_AnalyzeTotal ==
    apc = "done"
    => /\ ~analysis.raised
       /\ analysis.value.label \in Labels
       /\ 0 <= analysis.value.score /\ analysis.value.score <= 100

\* C9 happens: the pipeline was invoked, raised, and analyze returned a result.
C9_Witness ==
    /\ apc = "done"
    /\ BackendInvoked(input)
    /\ backend.raises
    /\ ~analysis.raised
    /\ analysis.value.label \in Labels

\* The keyword rules of the fallback classifier: a frustration-lexicon word in
\* the text gives FRUSTRATED, else a positive-lexicon word gives POSITIVE, else
\* NEUTRAL (case-insensitive substring tests).
RulesLabel(s) ==
    LET lower == Lower(s) IN
    IF Hits(frustration_critical \cup frustration_high \cup frustration_medium,
            lower) >= 1
    THEN "FRUSTRATED"
    ELSE IF Hits(satisfaction_high \cup satisfaction_medium \cup satisfaction_low,
                 lower) >= 1
    THEN "POSITIVE"
    ELSE "NEUTRAL"

\* C10: when the ML backend throws at inference time, analyze returns the label
\* the keyword rules assign to the text, fully populated and tagged mode = rules.
C10_RulesFallback ==
    (apc = "done" /\ BackendInvoked(input) /\ backend.raises)
    => /\ ~analysis.raised
       /\ analysis.value.label = RulesLabel(input)
       /\ analysis.value.confidence # Absent
       /\ "mode" \in DOMAIN analysis.value
       /\ analysis.value.mode = "rules"

\* C11: when the cleaned text (URLs and code removed, whitespace collapsed) is
\* empty or shorter than 5 characters, analyze returns NEUTRAL with confidence
\* low and does not invoke the ML backend.
C11_ShortCleanedGuard ==
    (apc = "done" /\ Len(preprocess_text(input)) < 5)
    => /\ ~analysis.invoked
       /\ ~analysis.raised
       /\ analysis.value.label = "NEUTRAL"
       /\ analysis.value.confidence = "low"

\* C12: the keyword rules check the frustration lexicon before the positive one
\* and the first match wins: a classified text with a frustration-lexicon word is
\* FRUSTRATED, also when it has positive-lexicon words; one with only
\* positive-lexicon words is POSITIVE; one with neither is NEUTRAL.
C12_FrustrationFirst ==
    LET lower == Lower(input)
        frustration ==
            Hits(frustration_critical \cup frustration_high \cup frustration_medium,
                 lower) >= 1
        positive ==
            Hits(satisfaction_high \cup satisfaction_medium \cup satisfaction_low,
                 lower) >= 1
    IN
    (apc = "done" /\ analysis.invoked /\ ~analysis.raised)
    => /\ frustration => analysis.value.label = "FRUSTRATED"
       /\ (~frustration /\ positive) => analysis.value.label = "POSITIVE"
       /\ (~frustration /\ ~positive) => analysis.value.label = "NEUTRAL"

----------------------------------------------------------------------------
(* batch_analyze and aggregate_sentiment: statements checked under BatchSpec *)

\* C13: batch_analyze returns a list as long as texts whose i-th element is
\* analyze of the i-th text, for every batch_size >= 1.
C13_BatchPointwise ==
    bpc \in { "analyzed", "aggregated" }
    => /\ Len(sentiment_results) = Len(in_texts)
       /\ \A i \in 1..Len(in_texts) :
              sentiment_results[i] = analyze(in_texts[i], in_pipeline[i]).value

\* C13 happens: three texts went through batches of two, the last batch partial,
\* and gave different results.
C13_Witness ==
    /\ bpc = "analyzed"
    /\ Len(in_texts) = 3
    /\ in_batch_size = 2
    /\ Len(sentiment_results) = 3
    /\ sentiment_results[1].label # sentiment_results[3].label

\* Number of results that carry label l.
Occurrences(l) ==
    Cardinality({ i \in 1..Len(sentiment_results) : sentiment_results[i].label = l })

\* Index of the first result that carries label l.
FirstSeen(l) ==
    CHOOSE i \in 1..Len(sentiment_results) :
        /\ sentiment_results[i].label = l
        /\ \A j \in 1..(i - 1) : sentiment_results[j].label # l

RECURSIVE SumNum(_, _)
SumNum(dist, n) == IF n = 0 THEN 0 ELSE SumNum(dist, n - 1) + dist[n].share.num

\* C14: for a non-empty sequence of results the distribution gives each label
\* that occurs, and no other, its share count/total; the counts add up to
\* total_analyzed, so the shares sum to 1.
C14_DistributionShares ==
    (bpc = "aggregated" /\ sentiment_results # <<>>)
    => LET dist == sentiment_summary.sentiment_distribution
           total == Len(sentiment_results)
       IN /\ sentiment_summary.total_analyzed = total
          /\ { dist[i].label : i \in 1..Len(dist) }
               = { sentiment_results[i].label : i \in 1..total }
          /\ \A i, j \in 1..Len(dist) : dist[i].label = dist[j].label => i = j
          /\ \A i \in 1..Len(dist) :
                 /\ dist[i].share.num = Occurrences(dist[i].label)
                 /\ dist[i].share.den = total
          /\ SumNum(dist, Len(dist)) = sentiment_summary.total_analyzed

\* C14 happens: a distribution over several labels, one of them occurring twice.
C14_Witness ==
    /\ bpc = "aggregated"
    /\ Len(sentiment_results) = 3
    /\ Len(sentiment_summary.sentiment_distribution) = 2
    /\ sentiment_summary.sentiment_distribution[1].share = Ratio(2, 3)

\* C15: for a non-empty sequence of results dominant_sentiment is a label with
\* the maximum count, and of several such labels the one seen first in the input.
C15_DominantFirstSeen ==
    (bpc = "aggregated" /\ sentiment_results # <<>>)
    => LET d == sentiment_summary.dominant_sentiment
           seen == { sentiment_results[i].label : i \in 1..Len(sentiment_results) }
       IN /\ d \in seen
          /\ \A l \in seen : Occurrences(l) <= Occurrences(d)
          /\ \A l \in seen \ {d} :
                 Occurrences(l) = Occurrences(d) => FirstSeen(d) < FirstSeen(l)

\* C15 happens: two labels tie for the maximum and the dominant one is not the
\* label of the last result.
C15_Witness ==
    /\ bpc = "aggregated"
    /\ Len(sentiment_results) = 2
    /\ sentiment_results[1].label # sentiment_results[2].label
    /\ sentiment_summary.dominant_sentiment = sentiment_results[1].label

\* C16: aggregate_sentiment of an empty input returns a default that has
\* average_score, sentiment_distribution, dominant_sentiment and total_analyzed.
C16_EmptyDefaultShape ==
    (bpc = "aggregated" /\ sentiment_results = <<>>)
    => { "average_score", "sentiment_distribution", "dominant_sentiment",
         "total_analyzed" } \subseteq DOMAIN sentiment_summary

----------------------------------------------------------------------------
(* TrendPredictor: statements checked under PredictorSpec *)

\* Index of the last point of the series whose date converts to ds.
LastRow(series, ds) ==
    CHOOSE i \in RowsWithDs(series, ds) : \A j \in RowsWithDs(series, ds) : j <= i

DistinctDates(series) == Cardinality({ series[i].date : i \in 1..Len(series) })

\* C17: prepare returns the points sorted by date ascending, one per distinct
\* date, and for a date that occurs several times the value of its last
\* occurrence in the input.
C17_PrepareLaterWins ==
    fc_call.op = "prepare"
    => LET series == fc_call.historical_data
           df == fc_call.returned
       IN /\ \A k \in 1..(Len(df) - 1) : df[k].ds < df[k + 1].ds
          /\ { df[k].ds : k \in 1..Len(df) }
               = { to_datetime(series[i].date) : i \in 1..Len(series) }
          /\ \A k \in 1..Len(df) :
                 df[k].y = series[LastRow(series, df[k].ds)].sentiment_score

\* C18: train on a series with fewer than 10 distinct dates returns False and
\* leaves model and trained_on as they were; a fresh predictor stays untrained.
C18_TrainTooFew ==
    (fc_call.op = "train" /\ DistinctDates(fc_call.historical_data) < 10)
    => /\ fc_call.returned = FALSE
       /\ model = fc_call.before.model
       /\ trained_on = fc_call.before.trained_on
       /\ fc_call.before.model = NoModel => (model = NoModel /\ trained_on = NoName)

\* C18 happens: a trained predictor was given ten or more points on fewer than ten
\* distinct dates, returned False and kept its model and label.
C18_Witness ==
    /\ fc_call.op = "train"
    /\ Len(fc_call.historical_data) >= 10
    /\ DistinctDates(fc_call.historical_data) < 10
    /\ fc_call.returned = FALSE
    /\ model.fitted
    /\ trained_on # NoName
    /\ trained_on # fc_call.technology

\* C19: a predict call made when no earlier train call has returned True gives
\* the ModelNotTrained result (the error dict with empty predictions), whatever
\* made the earlier train calls return False.
C19_PredictUntrained ==
    (fc_call.op = "predict" /\ ~fc_trained)
    => /\ ~fc_call.raised
       /\ fc_call.returned = ModelNotTrained

----------------------------------------------------------------------------
(* Claims about analyze_trend *)

RatioEq(p, q) == p.num * q.den = q.num * p.den

\* The sum of the scores of the rows from..to of a frame.
RangeSum(df, from, to) == SumY(df, { i \in 1..Len(df) : from <= i /\ i <= to })

\* The percentage change from the mean of rows of..ot to the mean of rows
\* rf..rt, and 0 when the former mean is 0.
PercentChange(df, rf, rt, of, ot) ==
    LET r == RangeSum(df, rf, rt)
        o == RangeSum(df, of, ot)
        rn == rt - rf + 1
        on == ot - of + 1
    IN IF o = 0 THEN Ratio(0, 1)
       ELSE Ratio((r * on - o * rn) * 100, rn * o)

TrendCalls == fc_call.op = "analyze_trend"

\* C21 as stated: on at least 2 points analyze_trend gives the percentage change
\* of the mean of the most recent 7 points relative to the mean of all points
\* strictly before that window, two windows that share no point, and 0 when the
\* older mean is 0; on fewer than 2 points it gives the insufficient-data outcome.
C21_Original ==
    TrendCalls =>
        LET df == fc_call.df
            n == Len(df)
            first == IF n > trend_window THEN n - trend_window + 1 ELSE 1
        IN IF n < 2 THEN fc_call.returned = [error |-> InsufficientData]
           ELSE /\ first > 1
                /\ RatioEq(fc_call.returned.trend_change_percent,
                           PercentChange(df, first, n, 1, first - 1))

\* C21 amended: on more than 7 points the two windows are the last 7 points and
\* all points before them; on 2 to 7 points the recent window is the whole
\* series and the older mean is the first point alone, a point of the recent
\* window.  The change is 0 when the older mean is 0, and fewer than 2 points
\* give the insufficient-data outcome.
C21_Amended ==
    TrendCalls =>
        LET df == fc_call.df
            n == Len(df)
        IN IF n < 2 THEN fc_call.returned = [error |-> InsufficientData]
           ELSE IF n > trend_window
           THEN RatioEq(fc_call.returned.trend_change_percent,
                        PercentChange(df, n - trend_window + 1, n, 1, n - trend_window))
           ELSE RatioEq(fc_call.returned.trend_change_percent,
                        PercentChange(df, 1, n, 1, 1))

C21_Witness ==
    /\ TrendCalls
    /\ Len(fc_call.df) = trend_window - 1
    /\ fc_call.df[1].y = 10
    /\ fc_call.returned.trend_change_percent.num # 0
----------------------------------------------------------------------------
(* Claims about the AnomalyDetector *)

DetectOps ==
    { "detect_statistical_anomalies", "detect_iforest_anomalies",
      "detect_window_anomalies" }

\* The input is empty, or a record has no date, no score, or a date that cannot
\* be parsed.
Unusable(historical_data) ==
    \/ historical_data = <<>>
    \/ \E i \in 1..Len(historical_data) :
          \/ historical_data[i].date \in { Missing, Unparseable }
          \/ historical_data[i].sentiment_score = Missing

\* C22: each of the three detection methods returns an empty list and does not
\* raise when its input is empty or unparseable (records without a date or a
\* value field, or a date that cannot be parsed).
C22_UnusableInputEmptyResult ==
    (det_call.op \in DetectOps /\ Unusable(det_call.historical_data))
    => /\ ~det_call.raised
       /\ det_call.returned = <<>>

\* n times the deviation of row i from the mean, and the sum of the squares of
\* these over the frame: n^3 times the population variance.
Deviation(df, i) == Len(df) * df[i].y - RangeSum(df, 1, Len(df))
RECURSIVE SquaredDeviations(_, _)
SquaredDeviations(df, i) ==
    IF i = 0 THEN 0
    ELSE Deviation(df, i) * Deviation(df, i) + SquaredDeviations(df, i - 1)

\* The rows with |value - mean| / population standard deviation >= threshold.
AtOrOverThreshold(df, thr) ==
    LET n == Len(df)
        ss == SquaredDeviations(df, n)
    IN { i \in 1..n :
           /\ ss > 0
           /\ n * Deviation(df, i) * Deviation(df, i) * thr.den * thr.den
                 >= thr.num * thr.num * ss }

\* C23: the z-score detector flags exactly the points whose distance from the
\* mean, divided by the population standard deviation, is at least the
\* threshold, as a spike when the point is above the mean and a drop otherwise,
\* and flags nothing in a constant series whatever the threshold.
C23_ZScoreExact ==
    (det_call.op = "detect_statistical_anomalies" /\ ~det_call.raised)
    => LET df == det_call.df
           ret == det_call.returned
           expected == AtOrOverThreshold(df, det_call.threshold)
           Reports(a, i) ==
               /\ a.date = strftime(df[i].ds)
               /\ a.value = df[i].y
               /\ a.type = IF Deviation(df, i) > 0 THEN "spike" ELSE "drop"
       IN /\ Len(ret) = Cardinality(expected)
          /\ \A i \in expected : \E k \in 1..Len(ret) : Reports(ret[k], i)
          /\ \A k \in 1..Len(ret) : \E i \in expected : Reports(ret[k], i)
          /\ SquaredDeviations(df, Len(df)) = 0 => ret = <<>>

C23_Witness ==
    /\ det_call.op = "detect_statistical_anomalies"
    /\ det_call.threshold = Ratio(2, 1)
    /\ Len(det_call.df) = 5
    /\ Len(det_call.returned) = 1
    /\ det_call.returned[1].type = "spike"
    /\ det_call.returned[1].z_score_squared.num
         = 4 * det_call.returned[1].z_score_squared.den

\* C24: after any sequence of fit and detect calls on one detector, the
\* isolation-forest detection of a series of fewer than 5 points is skipped and
\* returns no anomaly, and when no model is fit it fits one on the given series
\* before scoring.
C24_ForestSkipsShort ==
    (det_call.op = "detect_iforest_anomalies" /\ ~det_call.raised)
    => /\ Len(det_call.df) < min_forest_rows
            => (det_call.returned = <<>> /\ ~det_call.scored)
       /\ (det_call.before = NoForest /\ Len(det_call.df) >= min_forest_rows)
            => /\ det_call.scored
               /\ forest.fitted_on = [i \in 1..Len(det_call.df) |-> det_call.df[i].y]
\* A call of the windowed detector with window 7 and threshold 0.25 on a daily
\* series of n days that holds the level c up to day 13 and c + 40% from day 14.
SustainedStep(n, c) ==
    /\ det_call.op = "detect_window_anomalies"
    /\ det_call.window = default_window
    /\ det_call.threshold = default_threshold
    /\ n >= StepDay
    /\ det_call.historical_data = StepSeries(n, StepDay - 1, c, (c * 140) \div 100)

SpikeFrom(day) ==
    \E k \in 1..Len(det_call.returned) :
        /\ det_call.returned[k].date >= day
        /\ det_call.returned[k].type = "spike"

NothingBefore(day) ==
    \A k \in 1..Len(det_call.returned) : det_call.returned[k].date >= day

\* The first day whose 7-day window holds enough raised points for its mean to
\* be 25% over the old level: 5 of 7 (0.4 * 5 / 7 >= 0.25 > 0.4 * 4 / 7).
FirstFlaggedDay == StepDay + 4

\* C25 as stated: for a daily series constant up to day 13 and sustained at +40%
\* from day 14 on, the windowed detector (window 7, threshold 0.25) reports no
\* anomaly dated before day 14 and at least one spike dated day 14 or later.
C25_Original ==
    \A n \in StepDay..MaxSeriesDays, c \in { 10, 50 } :
        SustainedStep(n, c)
        => /\ ~det_call.raised
           /\ NothingBefore(StepDay)
           /\ SpikeFrom(StepDay)

\* C25 amended: when the level is positive and the series runs to day 18 or
\* later, no anomaly is dated before day 18 and a spike is dated day 18; when the
\* series ends before day 18, or the level is 0, nothing is reported.
C25_Amended ==
    \A n \in StepDay..MaxSeriesDays, c \in { 0, 10, 50 } :
        SustainedStep(n, c)
        => /\ ~det_call.raised
           /\ NothingBefore(FirstFlaggedDay)
           /\ IF c > 0 /\ n >= FirstFlaggedDay
              THEN \E k \in 1..Len(det_call.returned) :
                      /\ det_call.returned[k].date = FirstFlaggedDay
                      /\ det_call.returned[k].type = "spike"
              ELSE det_call.returned = <<>>

C25_Witness ==
    /\ SustainedStep(FirstFlaggedDay + 3, 50)
    /\ Len(det_call.returned) = 4
    /\ det_call.returned[1].date = FirstFlaggedDay

\* C28: in the windowed detector the rolling mean of a row i is the mean of the
\* rows i-window+1..i and its baseline a mean of rows at or before i-window
\* (the 2*window rows ending there), so the baseline holds no point of the
\* evaluated window; rows whose baseline is undefined or 0 are not flagged.
C28_BaselineBeforeWindow ==
    (det_call.op = "detect_window_anomalies" /\ ~det_call.raised
       /\ Len(det_call.df) >= 2 * det_call.window)
    => LET df == det_call.df
           w == det_call.window
           Mean(from, to) == Ratio(RangeSum(df, from, to), to - from + 1)
           First(i) == IF i - 3 * w + 1 >= 1 THEN i - 3 * w + 1 ELSE 1
           Flagged(i) ==
               \E k \in 1..Len(det_call.returned) :
                   det_call.returned[k].date = strftime(df[i].ds)
       IN \A i \in 1..Len(df) :
            /\ i > w => /\ det_call.rolling_mean[i] = Mean(i - w + 1, i)
                        /\ det_call.baseline[i] = Mean(First(i), i - w)
            /\ i <= w => (det_call.baseline[i] = NaN /\ ~Flagged(i))
            /\ (i > w /\ RangeSum(df, First(i), i - w) = 0) => ~Flagged(i)

C28_Witness ==
    /\ det_call.op = "detect_window_anomalies"
    /\ det_call.window = default_window
    /\ det_call.returned # <<>>
    /\ \E i \in 1..Len(det_call.baseline) :
          /\ det_call.baseline[i] # NaN
          /\ det_call.baseline[i].num = 0
          /\ det_call.rolling_mean[i].num > 0
----------------------------------------------------------------------------
(* Claims about the daily aggregation *)

\* The fixed scale of the claim.
Scale(label) ==
    IF label = "SATISFIED" THEN 90
    ELSE IF label = "POSITIVE" THEN 75
    ELSE IF label = "NEUTRAL" THEN 50
    ELSE IF label = "NEGATIVE" THEN 25
    ELSE 10

RECURSIVE GroupScaleSum(_, _, _)
GroupScaleSum(records, key, i) ==
    IF i = 0 THEN 0
    ELSE GroupScaleSum(records, key, i - 1)
           + IF <<records[i].technology, records[i].date>> = key
             THEN Scale(records[i].label) ELSE 0

RECURSIVE CountSum(_, _)
CountSum(samples, k) ==
    IF k = 0 THEN 0 ELSE samples[k].record_count + CountSum(samples, k - 1)

SampleFields == { "technology", "date", "sentiment_score", "record_count" }

\* C27: the aggregation emits exactly one daily sample per (technology, date)
\* group that has records, in date order; a sample's record_count is the number
\* of records of its group, the counts adding up to the number of records, and
\* its score is the mean of the group's labels on the scale SATISFIED 90,
\* POSITIVE 75, NEUTRAL 50, NEGATIVE 25, FRUSTRATED 10.
C27_DailySamples ==
    (agg_call.op # "none" /\ ~agg_call.raised)
    => LET records == agg_call.records
           out == agg_call.returned
           groups == { <<records[i].technology, records[i].date>> :
                         i \in 1..Len(records) }
           Size(key) ==
               Cardinality({ i \in 1..Len(records) :
                               <<records[i].technology, records[i].date>> = key })
       IN /\ Len(out) = Cardinality(groups)
          /\ \A k \in 1..Len(out) :
                /\ SampleFields \subseteq DOMAIN out[k]
                /\ <<out[k].technology, out[k].date>> \in groups
                /\ out[k].record_count = Size(<<out[k].technology, out[k].date>>)
                /\ RatioEq(out[k].sentiment_score,
                           Ratio(GroupScaleSum(records,
                                     <<out[k].technology, out[k].date>>, Len(records)),
                                 out[k].record_count))
          /\ \A g \in groups :
                \E k \in 1..Len(out) : <<out[k].technology, out[k].date>> = g
          /\ \A j, k \in 1..Len(out) :
                (j < k /\ out[j].technology = out[k].technology)
                => out[j].date < out[k].date
          /\ CountSum(out, Len(out)) = Len(records)
----------------------------------------------------------------------------
(* The report cache: insufficient data, error results, overlapping refreshes *)

\* The recomputation of thread t built a report from at least one record while
\* the daily series was too short to train on or training returned False.
TooLittleToForecast(t) ==
    /\ path[t] = "fetch"
    /\ result[t].kind = "report"
    /\ result[t].data_points >= 1
    /\ (upstream.days < MinTrainPoints \/ ~upstream.fits)

StepOf(t) == pc'[t] # pc[t]

\* C29, the frame: a step that ends a recomputation in an error result, and the
\* step that returns that result, write neither dict, and the recomputation has
\* stored no report and no fetch time under any key.
C29_StoresNothing(t) ==
    /\ (StepOf(t) /\ (result[t].kind = "error" \/ result'[t].kind = "error"))
         => UNCHANGED <<data_cache, last_fetch_time>>
    /\ (StepOf(t) /\ result'[t].kind = "error")
         => \A k \in DictKeys :
               /\ data_cache'[k] # NoResult => data_cache'[k].rid # rid'[t]
               /\ fetch_rid'[k] # rid'[t]

\* C29, the cache never holds an error result.
C29_NoErrorCached == \A k \in DictKeys : data_cache[k].kind # "error"

\* Thread u begins a call for the key whose recomputation by thread t has just
\* ended in an error result.
C29_NextCall(t, u) ==
    /\ t # u
    /\ pc[t] = "done" /\ path[t] = "fetch" /\ result[t].kind = "error"
    /\ Begins(u)
    /\ Lower(technology'[u]) = Key(t)

\* C29 as stated: a recomputation that ends in an error result stores nothing,
\* the report and fetch time of every key stay as they were, the error result
\* is never served from the cache, and the next call for that key recomputes.
C29_Original ==
    [][ /\ \A t \in Threads : C29_StoresNothing(t)
        /\ C29_NoErrorCached'
        /\ \A t, u \in Threads : C29_NextCall(t, u) => path'[u] = "fetch" ]_vars

\* C29 amended: as stated, except that the next call for that key recomputes
\* unless it is not forced and the key still holds a report fetched less than
\* the TTL ago, which it then takes from the cache.
C29_Amended ==
    [][ /\ \A t \in Threads : C29_StoresNothing(t)
        /\ C29_NoErrorCached'
        /\ \A t, u \in Threads :
              C29_NextCall(t, u)
              => \/ path'[u] = "fetch"
                 \/ /\ path'[u] = "hit"
                    /\ ~force_refresh'[u]
                    /\ EntryWithinTTL(Key(t))
                    /\ data_cache[Key(t)].kind = "report" ]_vars

\* A recomputation has ended in an error result while the requested key holds
\* an entry older than the TTL, and that entry is still there.
C29_Witness ==
    \E t \in Threads :
        /\ pc[t] = "done" /\ path[t] = "fetch" /\ result[t].kind = "error"
        /\ data_cache[Key(t)].kind = "report"
        /\ last_fetch_time[Key(t)] # NoTime
        /\ ~EntryWithinTTL(Key(t))

\* C30: when recomputations of one key overlap, a report in the cache is only
\* replaced by the report of a recomputation that began later, and the fetch
\* time of a key is not later than the one written by the recomputation whose
\* report the key holds.
C30_NewerReportWins ==
    [][ \A k \in DictKeys :
          /\ (data_cache[k] # NoResult /\ data_cache'[k] # data_cache[k])
               => data_cache'[k].rid > data_cache[k].rid
          /\ (data_cache'[k] # NoResult /\ last_fetch_time'[k] # NoTime
                 /\ fetch_rid'[k] # data_cache'[k].rid)
               => last_fetch_time'[k] <= data_cache'[k].last_updated ]_vars
====
